---- MODULE Spec2Model ----
(***************************************************************************)
(* Request pipeline of content-hub-api: RequestIdMiddleware,               *)
(* LoggerMiddleware (with sanitizeBody), TenantContextMiddleware,          *)
(* JwtAuthGuard, RolesGuard, FeatureFlagGuard, the route handler and the   *)
(* response 'finish' event.                                                *)
(*                                                                         *)
(* JavaScript values are tagged records [t |-> <typeof/kind>, ...].        *)
(* Strings that the code takes apart (paths, hostnames, tenant ids) are    *)
(* sequences of one-character strings; strings the code only compares as   *)
(* a whole (codes, messages, role and flag names) are TLA+ strings.        *)
(***************************************************************************)
EXTENDS Integers, Sequences, FiniteSets, TLC

\* ------------------------------------------------------------------------
\* JavaScript values
\* ------------------------------------------------------------------------
Undef == [t |-> "undefined"]
Null == [t |-> "null"]
Str(s) == [t |-> "string", v |-> s]
Num(n) == [t |-> "number", v |-> n]
Bool(b) == [t |-> "boolean", v |-> b]
Arr(s) == [t |-> "array", v |-> s]
\* a string the code takes apart, as its sequence of characters
CStr(cs) == [t |-> "string", c |-> cs]

\* ToBoolean: what `if (x)`, `!x` and `x || y` test.
Truthy(x) ==
  CASE x.t = "undefined" -> FALSE
    [] x.t = "null" -> FALSE
    [] x.t = "string" -> IF "c" \in DOMAIN x THEN x.c # << >> ELSE x.v # ""
    [] x.t = "number" -> x.v # 0
    [] x.t = "boolean" -> x.v
    [] OTHER -> TRUE

\* a || b
OrElse(a, b) == IF Truthy(a) THEN a ELSE b

\* ------------------------------------------------------------------------
\* Character strings
\* ------------------------------------------------------------------------
RECURSIVE SplitFrom(_, _, _)
\* s.split(sep) for a one-character separator: cur is the label being read.
SplitFrom(s, sep, cur) ==
  IF s = << >> THEN << cur >>
  ELSE IF Head(s) = sep THEN << cur >> \o SplitFrom(Tail(s), sep, << >>)
  ELSE SplitFrom(Tail(s), sep, Append(cur, Head(s)))

Split(s, sep) == SplitFrom(s, sep, << >>)

\* s.startsWith(p)
StartsWith(s, p) == Len(s) >= Len(p) /\ SubSeq(s, 1, Len(p)) = p

\* arr.includes(x)
Includes(arr, x) == \E i \in 1..Len(arr) : arr[i] = x

Digits == {"0", "1", "2", "3", "4", "5", "6", "7", "8", "9"}

\* ------------------------------------------------------------------------
\* Exceptions
\* ------------------------------------------------------------------------
\* new UnauthorizedException(response) / ForbiddenException / BadRequestException
UnauthorizedException(response) == [status |-> 401, response |-> response]
ForbiddenException(response) == [status |-> 403, response |-> response]
BadRequestException(response) == [status |-> 400, response |-> response]

Returned(v) == [threw |-> FALSE, value |-> v]
Threw(e) == [threw |-> TRUE, exception |-> e]

\* request.requestId || 'no-request-id'
RequestIdOrDefault(requestId) == OrElse(requestId, Str("no-request-id"))

\* ------------------------------------------------------------------------
\* JwtAuthGuard
\* ------------------------------------------------------------------------
\* Error classes of the token library: TokenExpiredError and NotBeforeError
\* extend JsonWebTokenError, which extends Error.
SuperClass(cls) ==
  CASE cls = "TokenExpiredError" -> "JsonWebTokenError"
    [] cls = "NotBeforeError" -> "JsonWebTokenError"
    [] cls = "JsonWebTokenError" -> "Error"
    [] cls = "TypeError" -> "Error"
    [] cls = "RangeError" -> "Error"
    [] OTHER -> "Object"

RECURSIVE IsSubClass(_, _)
IsSubClass(cls, of) ==
  IF cls = of THEN TRUE
  ELSE IF cls = "Object" THEN FALSE
  ELSE IsSubClass(SuperClass(cls), of)

\* x instanceof cls
InstanceOf(x, cls) == x.t = "object" /\ IsSubClass(x.cls, cls)

ErrorObj(cls, message) == [t |-> "object", cls |-> cls, message |-> message]

\* info?.message
OptMessage(info) ==
  IF info.t \in {"undefined", "null"} THEN Undef
  ELSE IF info.t = "object" THEN Str(info.message)
  ELSE Undef

\* canActivate testing `isPublic !== undefined` instead of `isPublic`
canActivateBypass_NotUndefined(isPublic) == isPublic.t # "undefined"

\* isPublic truthy: canActivate returns true without calling super.canActivate
canActivateBypass(isPublic) == Truthy(isPublic)

\* handleRequest testing instanceof JsonWebTokenError before TokenExpiredError
handleRequest_JwtErrorFirst(err, user, info, requestIdField) ==
  LET requestId == RequestIdOrDefault(requestIdField) IN
  IF InstanceOf(info, "JsonWebTokenError")
  THEN Threw(UnauthorizedException(
         [message |-> "Invalid token", code |-> "INVALID_TOKEN", requestId |-> requestId]))
  ELSE IF InstanceOf(info, "TokenExpiredError")
  THEN Threw(UnauthorizedException(
         [message |-> "Token has expired", code |-> "TOKEN_EXPIRED", requestId |-> requestId]))
  ELSE IF OptMessage(info) = Str("No auth token")
  THEN Threw(UnauthorizedException(
         [message |-> "Authentication token is required", code |-> "TOKEN_MISSING",
          requestId |-> requestId]))
  ELSE IF Truthy(err) \/ ~Truthy(user)
  THEN Threw(UnauthorizedException(
         [message |-> "Unauthorized access", code |-> "UNAUTHORIZED", requestId |-> requestId]))
  ELSE Returned(user)

\* handleRequest whose last test is `!user` instead of `err || !user`
handleRequest_IgnoresErr(err, user, info, requestIdField) ==
  LET requestId == RequestIdOrDefault(requestIdField) IN
  IF InstanceOf(info, "TokenExpiredError")
  THEN Threw(UnauthorizedException(
         [message |-> "Token has expired", code |-> "TOKEN_EXPIRED", requestId |-> requestId]))
  ELSE IF InstanceOf(info, "JsonWebTokenError")
  THEN Threw(UnauthorizedException(
         [message |-> "Invalid token", code |-> "INVALID_TOKEN", requestId |-> requestId]))
  ELSE IF OptMessage(info) = Str("No auth token")
  THEN Threw(UnauthorizedException(
         [message |-> "Authentication token is required", code |-> "TOKEN_MISSING",
          requestId |-> requestId]))
  ELSE IF ~Truthy(user)
  THEN Threw(UnauthorizedException(
         [message |-> "Unauthorized access", code |-> "UNAUTHORIZED", requestId |-> requestId]))
  ELSE Returned(user)

\* handleRequest without the 'No auth token' branch
handleRequest_NoMissingBranch(err, user, info, requestIdField) ==
  LET requestId == RequestIdOrDefault(requestIdField) IN
  IF InstanceOf(info, "TokenExpiredError")
  THEN Threw(UnauthorizedException(
         [message |-> "Token has expired", code |-> "TOKEN_EXPIRED", requestId |-> requestId]))
  ELSE IF InstanceOf(info, "JsonWebTokenError")
  THEN Threw(UnauthorizedException(
         [message |-> "Invalid token", code |-> "INVALID_TOKEN", requestId |-> requestId]))
  ELSE IF Truthy(err) \/ ~Truthy(user)
  THEN Threw(UnauthorizedException(
         [message |-> "Unauthorized access", code |-> "UNAUTHORIZED", requestId |-> requestId]))
  ELSE Returned(user)

handleRequest(err, user, info, requestIdField) ==
  LET requestId == RequestIdOrDefault(requestIdField) IN
  IF InstanceOf(info, "TokenExpiredError")
  THEN Threw(UnauthorizedException(
         [message |-> "Token has expired", code |-> "TOKEN_EXPIRED", requestId |-> requestId]))
  ELSE IF InstanceOf(info, "JsonWebTokenError")
  THEN Threw(UnauthorizedException(
         [message |-> "Invalid token", code |-> "INVALID_TOKEN", requestId |-> requestId]))
  ELSE IF OptMessage(info) = Str("No auth token")
  THEN Threw(UnauthorizedException(
         [message |-> "Authentication token is required", code |-> "TOKEN_MISSING",
          requestId |-> requestId]))
  ELSE IF Truthy(err) \/ ~Truthy(user)
  THEN Threw(UnauthorizedException(
         [message |-> "Unauthorized access", code |-> "UNAUTHORIZED", requestId |-> requestId]))
  ELSE Returned(user)

\* ------------------------------------------------------------------------
\* RolesGuard
\* ------------------------------------------------------------------------
\* user.roles || []
UserRoles(user) ==
  IF "roles" \in DOMAIN user /\ Truthy(user.roles) THEN user.roles.v ELSE << >>

\* requiredRoles.every(...) instead of requiredRoles.some(...)
HasRole_Every(requiredRoles, userRoles) ==
  \A i \in 1..Len(requiredRoles) : Includes(userRoles, requiredRoles[i])

\* requiredRoles.some((roles) => userRoles.includes(roles))
HasRole(requiredRoles, userRoles) ==
  \E i \in 1..Len(requiredRoles) : Includes(userRoles, requiredRoles[i])

\* canActivate without the `if (!user)` test
RolesCanActivate_NoUserCheck(requiredRoles, user, requestIdField) ==
  IF ~Truthy(requiredRoles) \/ Len(requiredRoles.v) = 0 THEN Returned(TRUE)
  ELSE
    LET requestId == RequestIdOrDefault(requestIdField) IN
    IF ~HasRole(requiredRoles.v, UserRoles(user))
    THEN Threw(ForbiddenException(
           [message |-> "Insufficient permissions", code |-> "INSUFFICIENT_ROLES",
            requiredRoles |-> requiredRoles.v, userRoles |-> UserRoles(user),
            requestId |-> requestId]))
    ELSE Returned(TRUE)

\* canActivate with `if (!user) return true`
RolesCanActivate_AllowAnonymous(requiredRoles, user, requestIdField) ==
  IF ~Truthy(requiredRoles) \/ Len(requiredRoles.v) = 0 THEN Returned(TRUE)
  ELSE
    LET requestId == RequestIdOrDefault(requestIdField) IN
    IF ~Truthy(user) THEN Returned(TRUE)
    ELSE IF ~HasRole(requiredRoles.v, UserRoles(user))
    THEN Threw(ForbiddenException(
           [message |-> "Insufficient permissions", code |-> "INSUFFICIENT_ROLES",
            requiredRoles |-> requiredRoles.v, userRoles |-> UserRoles(user),
            requestId |-> requestId]))
    ELSE Returned(TRUE)

\* canActivate as in role.guard.ts
RolesCanActivate(requiredRoles, user, requestIdField) ==
  IF ~Truthy(requiredRoles) \/ Len(requiredRoles.v) = 0 THEN Returned(TRUE)
  ELSE
    LET requestId == RequestIdOrDefault(requestIdField) IN
    IF ~Truthy(user)
    THEN Threw(ForbiddenException(
           [message |-> "User not Authenticated", code |-> "USER_NOT_FOUND",
            requestId |-> requestId]))
    ELSE IF ~HasRole(requiredRoles.v, UserRoles(user))
    THEN Threw(ForbiddenException(
           [message |-> "Insufficient permissions", code |-> "INSUFFICIENT_ROLES",
            requiredRoles |-> requiredRoles.v, userRoles |-> UserRoles(user),
            requestId |-> requestId]))
    ELSE Returned(TRUE)

\* ------------------------------------------------------------------------
\* FeatureFlagGuard
\* ------------------------------------------------------------------------
Chars_tenant123 == << "t", "e", "n", "a", "n", "t", "-", "1", "2", "3" >>
Chars_tenant456 == << "t", "e", "n", "a", "n", "t", "-", "4", "5", "6" >>

enabledFeatures == {"new-dashboard", "beta-reports"}

\* disabledForTenants[flag], undefined for a flag that has no entry
disabledForTenants(flag) ==
  IF flag = "beta-reports" THEN Arr(<< CStr(Chars_tenant123) >>) ELSE Undef

\* isFeatureEnabled that only consults the global set
isFeatureEnabled_GlobalOnly(flag, tenantId) == flag \in enabledFeatures

isFeatureEnabled(flag, tenantId) ==
  IF flag \notin enabledFeatures THEN FALSE
  ELSE IF Truthy(tenantId)
          /\ disabledForTenants(flag).t = "array"
          /\ Includes(disabledForTenants(flag).v, tenantId)
  THEN FALSE
  ELSE TRUE

\* request.tenantContext?.tenantId
OptTenantId(tenantContext) ==
  IF tenantContext.t \in {"undefined", "null"} THEN Undef ELSE tenantContext.tenantId

FeatureCanActivate(requiredFlag, tenantContext, requestIdField) ==
  IF ~Truthy(requiredFlag) THEN Returned(TRUE)
  ELSE
    LET requestId == RequestIdOrDefault(requestIdField)
        tenantId == OptTenantId(tenantContext)
    IN IF ~isFeatureEnabled(requiredFlag.v, tenantId)
       THEN Threw(ForbiddenException(
              [message |-> "Feature not available", code |-> "FEATURE_DISABLED",
               feature |-> requiredFlag.v, requestId |-> requestId]))
       ELSE Returned(TRUE)

\* ------------------------------------------------------------------------
\* TenantContextMiddleware
\* ------------------------------------------------------------------------
Chars_health == << "/", "h", "e", "a", "l", "t", "h" >>
Chars_apiPublic == << "/", "a", "p", "i", "/", "p", "u", "b", "l", "i", "c" >>
Chars_apiAuthRegister ==
  << "/", "a", "p", "i", "/", "a", "u", "t", "h", "/", "r", "e", "g", "i", "s", "t", "e", "r" >>
Chars_localhost == << "l", "o", "c", "a", "l", "h", "o", "s", "t" >>

excludedPaths == << Chars_health, Chars_apiPublic, Chars_apiAuthRegister >>

ignoredSubdomains == << << "w", "w", "w" >>, << "a", "p", "i" >>,
                        << "a", "d", "m", "i", "n" >>, << "a", "p", "p" >> >>

\* isExcludedPath with path.startsWith(excluded), without the '/'
isExcludedPath_BarePrefix(path) ==
  \E i \in 1..Len(excludedPaths) :
    path = excludedPaths[i] \/ StartsWith(path, excludedPaths[i])

isExcludedPath(path) ==
  \E i \in 1..Len(excludedPaths) :
    path = excludedPaths[i] \/ StartsWith(path, excludedPaths[i] \o << "/" >>)

\* /^\d+\.\d+\.\d+\.\d+$/.test(hostname)
IsDottedQuad(cs) ==
  LET parts == Split(cs, ".") IN
  /\ Len(parts) = 4
  /\ \A i \in 1..4 : parts[i] # << >> /\ \A j \in 1..Len(parts[i]) : parts[i][j] \in Digits

TypeErrorSplit ==
  ErrorObj("TypeError", "Cannot read properties of undefined (reading 'split')")

\* extractSubdomain accepting two labels
extractSubdomain_TwoLabels(hostname) ==
  IF hostname.t # "string" THEN Threw(TypeErrorSplit)
  ELSE IF hostname.c = Chars_localhost \/ IsDottedQuad(hostname.c) THEN Returned(Null)
  ELSE
    LET parts == Split(hostname.c, ".") IN
    IF Len(parts) >= 2 /\ ~Includes(ignoredSubdomains, parts[1])
    THEN Returned(CStr(parts[1]))
    ELSE Returned(Null)

\* hostname is a string, or undefined when the request carries no Host header
extractSubdomain(hostname) ==
  IF hostname.t # "string" THEN Threw(TypeErrorSplit)
  ELSE IF hostname.c = Chars_localhost \/ IsDottedQuad(hostname.c) THEN Returned(Null)
  ELSE
    LET parts == Split(hostname.c, ".") IN
    IF Len(parts) >= 3 /\ ~Includes(ignoredSubdomains, parts[1])
    THEN Returned(CStr(parts[1]))
    ELSE Returned(Null)

\* A property of the request whose read throws value e
Throwing(e) == [t |-> "throws", value |-> e]

\* extractTenantContext that looks at the subdomain before the header
extractTenantContext_SubdomainFirst(headerTenantId, hostname, defaultTenant) ==
  LET sub == IF hostname.t = "throws" THEN Threw(hostname.value)
             ELSE extractSubdomain(hostname)
  IN IF ~sub.threw /\ Truthy(sub.value)
     THEN Returned([t |-> "object", tenantId |-> sub.value, subdomain |-> sub.value,
                    source |-> "subdomain"])
     ELSE IF Truthy(headerTenantId)
     THEN Returned([t |-> "object",
                    tenantId |-> IF headerTenantId.t = "array" THEN headerTenantId.v[1]
                                 ELSE headerTenantId,
                    source |-> "header"])
     ELSE IF sub.threw THEN sub
     ELSE IF Truthy(defaultTenant)
     THEN Returned([t |-> "object", tenantId |-> defaultTenant, source |-> "default"])
     ELSE Returned(Null)

\* headerTenantId is req.headers['x-tenant-id'], hostname what reading
\* req.hostname gives: a string, undefined, or Throwing(e) when the read throws.
extractTenantContext(headerTenantId, hostname, defaultTenant) ==
  IF Truthy(headerTenantId)
  THEN
    LET tenantId == IF headerTenantId.t = "array"
                    THEN (IF Len(headerTenantId.v) > 0 THEN headerTenantId.v[1] ELSE Undef)
                    ELSE headerTenantId
    IN Returned([t |-> "object", tenantId |-> tenantId, source |-> "header"])
  ELSE
    LET sub == IF hostname.t = "throws" THEN Threw(hostname.value)
               ELSE extractSubdomain(hostname)
    IN
    IF sub.threw THEN sub
    ELSE IF Truthy(sub.value)
    THEN Returned([t |-> "object", tenantId |-> sub.value, subdomain |-> sub.value,
                   source |-> "subdomain"])
    ELSE IF Truthy(defaultTenant)
    THEN Returned([t |-> "object", tenantId |-> defaultTenant, source |-> "default"])
    ELSE Returned(Null)

\* error instanceof Error ? error.message : 'Unknown error occurred'
ErrorMessageOf(error) ==
  IF InstanceOf(error, "Error") THEN error.message ELSE "Unknown error occurred"

\* if (tenantContext) res.setHeader('x-tenant-id', ...) only for source 'header'
TenantHeaderCalls_HeaderSourceOnly(tenantContext) ==
  IF Truthy(tenantContext) /\ tenantContext.source = "header"
  THEN << [name |-> "x-tenant-id", value |-> tenantContext.tenantId] >>
  ELSE << >>

\* if (tenantContext) res.setHeader('x-tenant-id', tenantContext.tenantId):
\* the setHeader calls made
TenantHeaderCalls(tenantContext) ==
  IF Truthy(tenantContext)
  THEN << [name |-> "x-tenant-id", value |-> tenantContext.tenantId] >>
  ELSE << >>

\* ------------------------------------------------------------------------
\* LoggerMiddleware.sanitizeBody
\* ------------------------------------------------------------------------
\* A request body is a heap of plain objects: h[id] is a function from the
\* object's own keys to values; a value is a scalar, an array Arr(<<...>>) or
\* a reference Ref(id) to a plain object of the heap.
Ref(id) == [t |-> "ref", id |-> id]

\* typeof v === 'object' && v !== null && !Array.isArray(v)
IsPlainObject(v) == v.t \in {"ref", "object"}

sensitiveFields == {"password", "token", "secret", "authorization", "creditCard", "cvv"}

REDACTED == Str("[REDACTED]")

\* Deepest nesting of plain objects in the request bodies explored.
MaxDepth == 2

\* Frames sanitizeBody may nest before the engine raises RangeError ("Maximum
\* call stack size exceeded"): more than any acyclic body explored needs.
MaxStack == MaxDepth + 2

RangeErrorStack == ErrorObj("RangeError", "Maximum call stack size exceeded")

\* The keys of the request bodies explored, in the order the body lists them;
\* Object.keys and JSON.stringify visit an object's keys in that order.
KeyOrder == << "name", "token", "user", "password", "secret", "authorization", "creditCard",
               "cvv", "Password", "toJSON", "self" >>

\* Object.keys(obj)
ObjectKeys(obj) == SelectSeq(KeyOrder, LAMBDA k : k \in DOMAIN obj)

\* the identity of the next object the engine allocates
NewId(h) == (CHOOSE n \in DOMAIN h : \A m \in DOMAIN h : m <= n) + 1

\* `const sanitized = body`: no copy, sanitized is the input object itself
Spread_Alias(h, id) == [heap |-> h, id |-> id]

\* `const sanitized = { ...body }`: a new object with the own properties of
\* body; nested objects and arrays are shared with body, not copied.
Spread(h, id) == [heap |-> h @@ (NewId(h) :> h[id]), id |-> NewId(h)]

\* the sensitiveFields loop, on the object sanitized
RedactFields(obj) ==
  [k \in DOMAIN obj |->
     IF k \in sensitiveFields /\ Truthy(obj[k]) THEN REDACTED ELSE obj[k]]

RECURSIVE sanitizeBody(_, _, _)
RECURSIVE SanitizeNested(_, _, _, _)

\* sanitizeBody that also sanitizes a mapping held as the first element of an
\* array
sanitizeBody_IntoArrays(h, id, frames) ==
  IF frames >= MaxStack THEN [threw |-> TRUE, exception |-> RangeErrorStack, heap |-> h]
  ELSE
    LET copied == Spread(h, id)
        n == copied.id
        redacted == [copied.heap EXCEPT ![n] = RedactFields(@)]
        unpacked == [redacted EXCEPT ![n] =
                       [k \in DOMAIN @ |->
                          IF @[k].t = "array" /\ Len(@[k].v) > 0 /\ @[k].v[1].t = "ref"
                          THEN @[k].v[1] ELSE @[k]]]
        nested == SanitizeNested(unpacked, n, ObjectKeys(unpacked[n]), frames)
    IN IF nested.threw THEN nested
       ELSE [threw |-> FALSE, value |-> Ref(n),
             heap |-> [nested.heap EXCEPT ![n] =
                         [k \in DOMAIN @ |->
                            IF redacted[n][k].t = "array" /\ unpacked[n][k].t = "ref"
                            THEN Arr(<< @[k] >> \o Tail(redacted[n][k].v))
                            ELSE @[k]]]]

\* sanitizeBody(body) on the object store h, body being object id; frames
\* counts the calls already on the stack.  The result carries the object
\* store after the call and, unless the call threw, the returned object.
sanitizeBody(h, id, frames) ==
  IF frames >= MaxStack THEN [threw |-> TRUE, exception |-> RangeErrorStack, heap |-> h]
  ELSE
    LET copied == Spread(h, id)
        n == copied.id
        redacted == [copied.heap EXCEPT ![n] = RedactFields(@)]
        nested == SanitizeNested(redacted, n, ObjectKeys(redacted[n]), frames)
    IN IF nested.threw THEN nested
       ELSE [threw |-> FALSE, value |-> Ref(n), heap |-> nested.heap]

\* The loop over Object.keys(sanitized), from the keys still to visit:
\* sanitized[key] = this.sanitizeBody(sanitized[key]) for every plain object.
SanitizeNested(h, n, keys, frames) ==
  IF keys = << >> THEN [threw |-> FALSE, heap |-> h]
  ELSE
    LET key == Head(keys) IN
    IF IsPlainObject(h[n][key])
    THEN LET res == sanitizeBody(h, h[n][key].id, frames + 1) IN
         IF res.threw THEN res
         ELSE SanitizeNested([res.heap EXCEPT ![n][key] = res.value], n, Tail(keys), frames)
    ELSE SanitizeNested(h, n, Tail(keys), frames)

\* ------------------------------------------------------------------------
\* JSON.stringify of a sanitized body
\* ------------------------------------------------------------------------
TypeErrorJson == ErrorObj("TypeError", "Converting circular structure to JSON")

\* a method whose call throws
ThrowingFunction == [t |-> "function", throws |-> TRUE]

RECURSIVE JsonThrows(_, _, _)
\* TRUE iff JSON.stringify(v) throws: v holds a BigInt, an object whose toJSON
\* throws, or an object that is already on the path from the root (onPath:
\* the identities of the objects on that path).
JsonThrows(h, v, onPath) ==
  CASE v.t = "bigint" -> TRUE
    [] v.t = "array" -> \E i \in 1..Len(v.v) : JsonThrows(h, v.v[i], onPath)
    [] v.t = "ref" ->
         \/ v.id \in onPath
         \/ ("toJSON" \in DOMAIN h[v.id] /\ h[v.id]["toJSON"] = ThrowingFunction)
         \/ \E k \in DOMAIN h[v.id] : JsonThrows(h, h[v.id][k], onPath \cup {v.id})
    [] OTHER -> FALSE

RECURSIVE JsonValue(_, _)
\* The document JSON.stringify(v) writes, for a v it does not throw on: own
\* properties holding undefined or a function are left out, an undefined or
\* function element of an array is written as null.
JsonValue(h, v) ==
  CASE v.t = "ref" ->
         [t |-> "object",
          fields |-> [k \in { x \in DOMAIN h[v.id] : h[v.id][x].t \notin {"undefined", "function"} }
                        |-> JsonValue(h, h[v.id][k])]]
    [] v.t = "array" ->
         Arr([i \in 1..Len(v.v) |->
                IF v.v[i].t \in {"undefined", "function"} THEN Null ELSE JsonValue(h, v.v[i])])
    [] OTHER -> v

JsonStringify(h, v) ==
  IF JsonThrows(h, v, {}) THEN Threw(TypeErrorJson) ELSE Returned(JsonValue(h, v))

\* Object.keys(body).length
KeyCount(h, body) == IF body.t = "ref" THEN Cardinality(DOMAIN h[body.id]) ELSE 0

\* ------------------------------------------------------------------------
\* State
\* ------------------------------------------------------------------------
Requests == {"r1", "r2"}

VARIABLES
  active,          \* the requests in flight in this behaviour
  defaultTenant,   \* process.env.DEFAULT_TENANT_ID || null
  req,             \* req[r]: the inbound request (headers, hostname, originalUrl, body)
  endpoint,        \* endpoint[r]: metadata of the target handler (isPublic, roles, featureFlag)
  validation,      \* validation[r]: (err, user, info) the credential validator reports
  pc,              \* pc[r]: the stage that runs next for request r
  requestId,       \* req['requestId']
  tenantContext,   \* req['tenantContext']
  user,            \* req.user
  sanitizedBody,   \* the sanitizeBody call of LoggerMiddleware.use: its result and the
                   \* object store after it
  setHeaderCalls,  \* the res.setHeader(name, value) calls, in order
  finishListeners, \* the listeners registered with res.on('finish'), each with the
                   \* values of use() it closes over
  thrown,          \* exceptions raised by the stages, in order
  statusCode,      \* res.statusCode
  trace,           \* the stages that have run, in order
  validatorCalls,  \* number of calls of super.canActivate
  log              \* records written to the Logger('HTTP') instance, in order

vars == << active, defaultTenant, req, endpoint, validation, pc, requestId, tenantContext,
           user, sanitizedBody, setHeaderCalls, finishListeners, thrown, statusCode, trace,
           validatorCalls, log >>

\* variables no stage writes
inputVars == << active, defaultTenant, req, endpoint, validation >>

NoResult == [threw |-> FALSE, value |-> Undef, called |-> FALSE, heap |-> << >>]

\* State of a request before its first stage; requestId, tenantContext and
\* user (what is already on the request object) are set by each Init.
InitState(first) ==
  /\ pc = [r \in Requests |-> IF r \in active THEN first ELSE "Idle"]
  /\ sanitizedBody = [r \in Requests |-> NoResult]
  /\ setHeaderCalls = [r \in Requests |-> << >>]
  /\ finishListeners = [r \in Requests |-> << >>]
  /\ thrown = [r \in Requests |-> << >>]
  /\ statusCode = [r \in Requests |-> 200]
  /\ trace = [r \in Requests |-> << >>]
  /\ validatorCalls = [r \in Requests |-> 0]
  /\ log = << >>

\* A failing stage that records its rejection and hands over all the same
Reject_Continues(r, stage, exception) ==
  /\ thrown' = [thrown EXCEPT ![r] = Append(@, [stage |-> stage, exception |-> exception])]
  /\ statusCode' = [statusCode EXCEPT ![r] =
                      IF "status" \in DOMAIN exception THEN exception.status ELSE 500]
  /\ pc' = [pc EXCEPT ![r] =
              CASE stage = "RequestLoggerStart" -> "Tenant"
                [] stage = "TenantResolver" -> "JwtAuth"
                [] stage = "AuthenticationGate" -> "Roles"
                [] stage = "AuthorizationGate" -> "Feature"
                [] stage = "FeatureGate" -> "Handler"]

\* A stage threw: the exception filter answers with the exception's status
\* (500 for an error that is not an HttpException) and no later stage runs.
Reject(r, stage, exception) ==
  /\ thrown' = [thrown EXCEPT ![r] = Append(@, [stage |-> stage, exception |-> exception])]
  /\ statusCode' = [statusCode EXCEPT ![r] =
                      IF "status" \in DOMAIN exception THEN exception.status ELSE 500]
  /\ pc' = [pc EXCEPT ![r] = "Respond"]

\* consumer.apply(RequestIdMiddleware, TenantContextMiddleware, LoggerMiddleware)
NextMiddleware_TenantFirst(stage) ==
  CASE stage = "RequestId" -> "Tenant"
    [] stage = "Tenant" -> "Logger"
    [] stage = "Logger" -> "JwtAuth"

\* consumer.apply(RequestIdMiddleware, LoggerMiddleware, TenantContextMiddleware):
\* the stage next() hands over to; after the last middleware, the guards.
NextMiddleware(stage) ==
  CASE stage = "RequestId" -> "Logger"
    [] stage = "Logger" -> "Tenant"
    [] stage = "Tenant" -> "JwtAuth"

\* The guard that runs after a guard returned true; after the last, the handler.
NextGuard(stage) ==
  CASE stage = "JwtAuth" -> "Roles"
    [] stage = "Roles" -> "Feature"
    [] stage = "Feature" -> "Handler"

Ran(r, stage) == trace' = [trace EXCEPT ![r] = Append(@, stage)]

\* ------------------------------------------------------------------------
\* Middleware
\* ------------------------------------------------------------------------
\* uuidv4(): an identifier no request has yet
Uuids == {Str("uuid-1"), Str("uuid-2")}

\* const requestId = uuidv4(): the inbound header is ignored
ChooseRequestId_AlwaysGenerate(header, generated) == generated

\* the inbound x-request-id when it is a non-empty string, else the new UUID
ChooseRequestId(header, generated) == OrElse(header, generated)

\* RequestIdMiddleware.use
RequestIdUse(r) ==
  /\ pc[r] = "RequestId"
  /\ \E generated \in Uuids \ { requestId[x] : x \in Requests } :
       LET id == ChooseRequestId(req[r].headers.xRequestId, generated) IN
       /\ requestId' = [requestId EXCEPT ![r] = id]
       /\ setHeaderCalls' = [setHeaderCalls EXCEPT ![r] =
                               Append(@, [name |-> "x-request-id", value |-> id])]
  /\ Ran(r, "RequestIdentifier")
  /\ pc' = [pc EXCEPT ![r] = NextMiddleware("RequestId")]
  /\ UNCHANGED << inputVars, tenantContext, user, sanitizedBody, finishListeners, thrown,
                  statusCode, validatorCalls, log >>

\* a listener built from a requestId field of the middleware instance, which
\* holds the id of the first request in flight that has one
FinishListener_InstanceField(r) ==
  [requestId |-> RequestIdOrDefault(
                   IF \E x \in active : requestId[x] # Undef
                   THEN requestId[CHOOSE x \in active : requestId[x] # Undef]
                   ELSE Undef),
   method |-> req[r].method, originalUrl |-> req[r].originalUrl,
   startTime |-> req[r].clock.start]

\* The arrow function passed to res.on('finish'): it closes over requestId,
\* method, originalUrl and startTime = Date.now() of this call of use().
FinishListener(r) ==
  [requestId |-> RequestIdOrDefault(requestId[r]),
   method |-> req[r].method, originalUrl |-> req[r].originalUrl,
   startTime |-> req[r].clock.start]

\* LoggerMiddleware.use: the entry record, the body record, res.on('finish')
\* and next().  An exception of sanitizeBody or JSON.stringify leaves use()
\* before the listener is registered and before next() is called.
LoggerUse(r) ==
  /\ pc[r] = "Logger"
  /\ LET id == RequestIdOrDefault(requestId[r])
         body == req[r].body
         userAgent == OrElse(req[r].headers.userAgent, Str("unknown"))
         incoming == [level |-> "log", kind |-> "Incoming", requestId |-> id,
                      method |-> req[r].method, url |-> req[r].originalUrl,
                      userAgent |-> userAgent]
         hasBody == Truthy(body) /\ KeyCount(req[r].heap, body) > 0
         sanitized == IF hasBody THEN sanitizeBody(req[r].heap, body.id, 0)
                      ELSE [threw |-> FALSE, value |-> Undef, heap |-> req[r].heap]
         json == IF sanitized.threw THEN sanitized
                 ELSE JsonStringify(sanitized.heap, sanitized.value)
     IN
     /\ sanitizedBody' = [sanitizedBody EXCEPT ![r] =
                            IF hasBody THEN [threw |-> sanitized.threw,
                                             value |-> IF sanitized.threw
                                                       THEN sanitized.exception
                                                       ELSE sanitized.value,
                                             called |-> TRUE,
                                             heap |-> sanitized.heap]
                            ELSE NoResult]
     /\ IF hasBody /\ json.threw
        THEN /\ log' = Append(log, incoming)
             /\ Reject(r, "RequestLoggerStart", json.exception)
             /\ UNCHANGED finishListeners
        ELSE /\ log' = IF hasBody
                       THEN log \o << incoming,
                                      [level |-> "debug", kind |-> "Body", requestId |-> id,
                                       body |-> json.value] >>
                       ELSE Append(log, incoming)
             /\ finishListeners' =
                  [finishListeners EXCEPT ![r] = Append(@, FinishListener(r))]
             /\ pc' = [pc EXCEPT ![r] = NextMiddleware("Logger")]
             /\ UNCHANGED << thrown, statusCode >>
  /\ Ran(r, "RequestLoggerStart")
  /\ UNCHANGED << inputVars, requestId, tenantContext, user, setHeaderCalls, validatorCalls >>

\* What the call next() at the end of the try block gives back to
\* TenantContextMiddleware.use: next is an argument of use(), and the call
\* either returns or lets an exception of the code it runs reach the caller.
NextOutcome(r) == req[r].next

\* TenantContextMiddleware.use.  The try block covers extractTenantContext,
\* the header write and the call next(); the catch block turns whatever is
\* thrown there into the BadRequestException.  On an excluded path next()
\* is called outside the try block and what it throws leaves use() as it is.
TenantUse(r) ==
  /\ pc[r] = "Tenant"
  /\ LET id == RequestIdOrDefault(requestId[r]) IN
     IF isExcludedPath(req[r].originalUrl.c)
     THEN /\ tenantContext' = [tenantContext EXCEPT ![r] = Null]
          /\ IF NextOutcome(r).threw
             THEN Reject(r, "NextCallback", NextOutcome(r).exception)
             ELSE /\ pc' = [pc EXCEPT ![r] = NextMiddleware("Tenant")]
                  /\ UNCHANGED << thrown, statusCode >>
          /\ UNCHANGED setHeaderCalls
     ELSE
       LET extracted == extractTenantContext(req[r].headers.xTenantId, req[r].hostname,
                                             defaultTenant)
       IN IF extracted.threw
          THEN /\ Reject(r, "TenantResolver",
                         BadRequestException(
                           [message |-> "Unable to determine tenant context",
                            requestId |-> id,
                            error |-> ErrorMessageOf(extracted.exception)]))
               /\ UNCHANGED << tenantContext, setHeaderCalls >>
          ELSE /\ tenantContext' = [tenantContext EXCEPT ![r] = extracted.value]
               /\ setHeaderCalls' =
                    [setHeaderCalls EXCEPT ![r] = @ \o TenantHeaderCalls(extracted.value)]
               /\ IF NextOutcome(r).threw
                  THEN Reject(r, "TenantResolver",
                              BadRequestException(
                                [message |-> "Unable to determine tenant context",
                                 requestId |-> id,
                                 error |-> ErrorMessageOf(NextOutcome(r).exception)]))
                  ELSE /\ pc' = [pc EXCEPT ![r] = NextMiddleware("Tenant")]
                       /\ UNCHANGED << thrown, statusCode >>
  /\ Ran(r, "TenantResolver")
  /\ UNCHANGED << inputVars, requestId, user, sanitizedBody, finishListeners, validatorCalls,
                  log >>

\* ------------------------------------------------------------------------
\* Guards
\* ------------------------------------------------------------------------
\* JwtAuthGuard.canActivate
JwtAuthCanActivate(r) ==
  /\ pc[r] = "JwtAuth"
  /\ IF canActivateBypass(endpoint[r].isPublic)
     THEN /\ pc' = [pc EXCEPT ![r] = NextGuard("JwtAuth")]
          /\ UNCHANGED validatorCalls
     ELSE /\ validatorCalls' = [validatorCalls EXCEPT ![r] = @ + 1]
          /\ pc' = [pc EXCEPT ![r] = "Validating"]
  /\ Ran(r, "AuthenticationGate")
  /\ UNCHANGED << inputVars, requestId, tenantContext, user, sanitizedBody, setHeaderCalls,
                  finishListeners, thrown, statusCode, log >>

\* The validator reports (err, user, info) to JwtAuthGuard.handleRequest; the
\* value handleRequest returns becomes request.user.
JwtAuthHandleRequest(r) ==
  /\ pc[r] = "Validating"
  /\ LET result == handleRequest(validation[r].err, validation[r].user, validation[r].info,
                                 requestId[r])
     IN IF result.threw
        THEN /\ Reject(r, "AuthenticationGate", result.exception)
             /\ UNCHANGED user
        ELSE /\ user' = [user EXCEPT ![r] = result.value]
             /\ pc' = [pc EXCEPT ![r] = NextGuard("JwtAuth")]
             /\ UNCHANGED << thrown, statusCode >>
  /\ UNCHANGED << inputVars, requestId, tenantContext, sanitizedBody, setHeaderCalls,
                  finishListeners, trace, validatorCalls, log >>

\* RolesGuard.canActivate
RolesGuardCanActivate(r) ==
  /\ pc[r] = "Roles"
  /\ LET result == RolesCanActivate(endpoint[r].roles, user[r], requestId[r]) IN
     IF result.threw
     THEN Reject(r, "AuthorizationGate", result.exception)
     ELSE /\ pc' = [pc EXCEPT ![r] = NextGuard("Roles")]
          /\ UNCHANGED << thrown, statusCode >>
  /\ Ran(r, "AuthorizationGate")
  /\ UNCHANGED << inputVars, requestId, tenantContext, user, sanitizedBody, setHeaderCalls,
                  finishListeners, validatorCalls, log >>

\* FeatureFlagGuard.canActivate
FeatureFlagGuardCanActivate(r) ==
  /\ pc[r] = "Feature"
  /\ LET result == FeatureCanActivate(endpoint[r].featureFlag, tenantContext[r], requestId[r])
     IN IF result.threw
        THEN Reject(r, "FeatureGate", result.exception)
        ELSE /\ pc' = [pc EXCEPT ![r] = NextGuard("Feature")]
             /\ UNCHANGED << thrown, statusCode >>
  /\ Ran(r, "FeatureGate")
  /\ UNCHANGED << inputVars, requestId, tenantContext, user, sanitizedBody, setHeaderCalls,
                  finishListeners, validatorCalls, log >>

\* ------------------------------------------------------------------------
\* Handler and response
\* ------------------------------------------------------------------------
\* Status codes a route handler answers with.
HandlerStatuses == {200, 201, 302, 399, 400, 404, 499, 500, 503}

\* The route handler runs and sets the status of the response.
Handler(r) ==
  /\ pc[r] = "Handler"
  /\ \E status \in HandlerStatuses : statusCode' = [statusCode EXCEPT ![r] = status]
  /\ Ran(r, "Handler")
  /\ pc' = [pc EXCEPT ![r] = "Respond"]
  /\ UNCHANGED << inputVars, requestId, tenantContext, user, sanitizedBody, setHeaderCalls,
                  finishListeners, thrown, validatorCalls, log >>

\* Severity tested with > instead of >=
CompletionLevel_Strict(status) ==
  IF status > 500 THEN "error" ELSE IF status > 400 THEN "warn" ELSE "log"

\* Severity of the completion record
CompletionLevel(status) ==
  IF status >= 500 THEN "error" ELSE IF status >= 400 THEN "warn" ELSE "log"

CompletedRecord_DefaultId(listener, status, now) ==
  [ level |-> CompletionLevel(status), kind |-> "Completed",
    requestId |-> RequestIdOrDefault(Undef), method |-> listener.method,
    url |-> listener.originalUrl, status |-> status,
    duration |-> now - listener.startTime ]

\* The record a 'finish' listener writes: now is Date.now() when it runs.
CompletedRecord(listener, status, now) ==
  [level |-> CompletionLevel(status), kind |-> "Completed",
   requestId |-> listener.requestId, method |-> listener.method,
   url |-> listener.originalUrl, status |-> status,
   duration |-> now - listener.startTime]

\* The response is sent: 'finish' fires and every registered listener runs.
Finish(r) ==
  /\ pc[r] = "Respond"
  /\ log' = log \o [i \in 1..Len(finishListeners[r]) |->
                      CompletedRecord(finishListeners[r][i], statusCode[r], req[r].clock.finish)]
  /\ trace' = [trace EXCEPT ![r] =
                 IF finishListeners[r] # << >> THEN Append(@, "RequestLoggerEnd") ELSE @]
  /\ pc' = [pc EXCEPT ![r] = "Done"]
  /\ UNCHANGED << inputVars, requestId, tenantContext, user, sanitizedBody, setHeaderCalls,
                  finishListeners, thrown, statusCode, validatorCalls >>

\* ------------------------------------------------------------------------
\* Inputs
\* ------------------------------------------------------------------------
Chars_apiArticles == << "/", "a", "p", "i", "/", "a", "r", "t", "i", "c", "l", "e", "s" >>
Chars_acmeHost ==
  << "a", "c", "m", "e", ".", "e", "x", "a", "m", "p", "l", "e", ".", "c", "o", "m" >>
Chars_acme == << "a", "c", "m", "e" >>

Identity(roles) ==
  [t |-> "object", userId |-> "u1", email |-> "test@example.com", roles |-> roles]

\* -- request bodies --
AuxObject == ("password" :> Str("hunter2"))

LeafKeys == sensitiveFields \cup {"Password", "name", "toJSON"}

BigInt(n) == [t |-> "bigint", v |-> n]

\* Arr(<< Ref(0) >>) is an array holding a mapping with a sensitive key,
\* Arr(<< Ref(1) >>) an array holding the body itself.
LeafValues ==
  { Str("hunter2"), Str(""), Num(0), Num(42), Bool(FALSE), Bool(TRUE), Null, Undef,
    Arr(<< Str("tag1"), Str("tag2") >>), Arr(<< Ref(0) >>), Ref(0),
    BigInt(1), Arr(<< Ref(1) >>), ThrowingFunction }

LinkKeys == {"user", "secret"}

\* Objects 1..d nested under links[1], .., links[d-1]; object d holds k: v
\* and, when cyc > 0, self: <object cyc>; object 0 is referenced from leaf values.
MkHeap(d, k, v, links, cyc) ==
  [i \in 0..d |->
     IF i = 0 THEN AuxObject
     ELSE IF i < d
     THEN ("name" :> Str("john")) @@ ("token" :> Str("abc123")) @@ (links[i] :> Ref(i + 1))
     ELSE IF cyc = 0 THEN (k :> v)
     ELSE (k :> v) @@ ("self" :> Ref(cyc))]

NoBody == [body |-> Undef, heap |-> << >>]
EmptyBody == [body |-> Ref(1), heap |-> [i \in {1} |-> << >>]]

BodiesOfDepth(d) ==
  { [body |-> Ref(1), heap |-> MkHeap(d, k, v, links, cyc)] :
      k \in LeafKeys, v \in LeafValues, links \in [1..(d - 1) -> LinkKeys], cyc \in 0..d }

AllBodies == {NoBody, EmptyBody} \cup UNION { BodiesOfDepth(d) : d \in 1..MaxDepth }

PipelineBodies ==
  { NoBody,
    [body |-> Ref(1), heap |-> MkHeap(1, "password", Str("hunter2"), << >>, 0)],
    [body |-> Ref(1), heap |-> MkHeap(1, "name", Str("hunter2"), << >>, 1)] }

\* clock: what Date.now() returns when LoggerMiddleware.use runs (start) and
\* when the response finishes (finish).
MkRequest(xRequestId, xTenantId, authorization, userAgent, hostname, originalUrl, b) ==
  [headers |-> [xRequestId |-> xRequestId, xTenantId |-> xTenantId,
                authorization |-> authorization, userAgent |-> userAgent],
   hostname |-> hostname, originalUrl |-> CStr(originalUrl), method |-> "GET",
   body |-> b.body, heap |-> b.heap, clock |-> [start |-> 1000, finish |-> 1045],
   next |-> Returned(Undef)]

\* -- requests to TenantContextMiddleware --
\* tenant.sub.example.com
Host_tenantSub ==
  << "t", "e", "n", "a", "n", "t", ".", "s", "u", "b", ".", "e", "x", "a", "m", "p", "l", "e",
     ".", "c", "o", "m" >>
\* 192.168.1.1
Host_ip192 == << "1", "9", "2", ".", "1", "6", "8", ".", "1", ".", "1" >>
\* 127.0.0.1
Host_ip127 == << "1", "2", "7", ".", "0", ".", "0", ".", "1" >>
\* www.example.com
Host_www == << "w", "w", "w", ".", "e", "x", "a", "m", "p", "l", "e", ".", "c", "o", "m" >>
\* api.example.com
Host_api == << "a", "p", "i", ".", "e", "x", "a", "m", "p", "l", "e", ".", "c", "o", "m" >>
\* admin.example.com
Host_admin ==
  << "a", "d", "m", "i", "n", ".", "e", "x", "a", "m", "p", "l", "e", ".", "c", "o", "m" >>
\* app.example.com
Host_app == << "a", "p", "p", ".", "e", "x", "a", "m", "p", "l", "e", ".", "c", "o", "m" >>
\* example.com
Host_twoLabels == << "e", "x", "a", "m", "p", "l", "e", ".", "c", "o", "m" >>
\* example
Host_oneLabel == << "e", "x", "a", "m", "p", "l", "e" >>
\* MyTenant.example.com
Host_MyTenant ==
  << "M", "y", "T", "e", "n", "a", "n", "t", ".", "e", "x", "a", "m", "p", "l", "e", ".", "c",
     "o", "m" >>
\* WWW.example.com
Host_WWW == << "W", "W", "W", ".", "e", "x", "a", "m", "p", "l", "e", ".", "c", "o", "m" >>
\* .example.com
Host_leadingDot == << ".", "e", "x", "a", "m", "p", "l", "e", ".", "c", "o", "m" >>
\* 1.2.3
Host_threeNumbers == << "1", ".", "2", ".", "3" >>
\* 1.2.3.4.5
Host_fiveNumbers == << "1", ".", "2", ".", "3", ".", "4", ".", "5" >>

Hostnames ==
  { Chars_localhost, Chars_acmeHost, Host_tenantSub, Host_ip192, Host_ip127, Host_www, Host_api,
    Host_admin, Host_app, Host_twoLabels, Host_oneLabel, Host_MyTenant, Host_WWW,
    Host_leadingDot, Host_threeNumbers, Host_fiveNumbers }

\* values a failing read of req.hostname throws
ThrownValues ==
  { Null, Undef, Str("String error"), Num(42),
    ErrorObj("Error", "Test error"), ErrorObj("Error", ""), ErrorObj("TypeError", "bad host"),
    [t |-> "object", cls |-> "Object", message |-> "not an Error"] }

\* req.hostname: a hostname, undefined, or a read that throws
HostnameReads ==
  { CStr(cs) : cs \in Hostnames } \cup {Undef} \cup { Throwing(e) : e \in ThrownValues }

\* /health/
Path_healthSlash == << "/", "h", "e", "a", "l", "t", "h", "/" >>
\* /health/x
Path_healthX == << "/", "h", "e", "a", "l", "t", "h", "/", "x" >>
\* /api/public/y
Path_apiPublicY == << "/", "a", "p", "i", "/", "p", "u", "b", "l", "i", "c", "/", "y" >>
\* /api/auth/register/z
Path_apiAuthRegisterZ ==
  << "/", "a", "p", "i", "/", "a", "u", "t", "h", "/", "r", "e", "g", "i", "s", "t", "e", "r",
     "/", "z" >>
\* /healthcheck
Path_healthcheck == << "/", "h", "e", "a", "l", "t", "h", "c", "h", "e", "c", "k" >>
\* /healthcare
Path_healthcare == << "/", "h", "e", "a", "l", "t", "h", "c", "a", "r", "e" >>
\* /health?detailed=true
Path_healthQuery ==
  << "/", "h", "e", "a", "l", "t", "h", "?", "d", "e", "t", "a", "i", "l", "e", "d", "=", "t",
     "r", "u", "e" >>
\* /Health
Path_Health == << "/", "H", "e", "a", "l", "t", "h" >>
\* /api/auth/login
Path_apiAuthLogin ==
  << "/", "a", "p", "i", "/", "a", "u", "t", "h", "/", "l", "o", "g", "i", "n" >>
\* /
Path_root == << "/" >>

Paths ==
  { Chars_health, Chars_apiPublic, Chars_apiAuthRegister, Path_healthSlash, Path_healthX,
    Path_apiPublicY, Path_apiAuthRegisterZ, Path_healthcheck, Path_healthcare, Path_healthQuery,
    Path_Health, Path_apiAuthLogin, Path_root, << >>, Chars_apiArticles }

Chars_t1 == << "t", "1" >>
Chars_t2 == << "t", "2" >>

\* req.headers['x-tenant-id']: absent, empty, one value, several values
TenantHeaders ==
  { Undef, CStr(<< >>), CStr(Chars_t1), CStr(Chars_tenant123),
    Arr(<< CStr(Chars_t1), CStr(Chars_t2) >>), Arr(<< CStr(<< >>), CStr(Chars_t2) >>) }

\* -- what the credential validator reports --
NoTokenInfo == ErrorObj("Error", "No auth token")

Errs == {Null, ErrorObj("Error", "Some error")}

Users ==
  { Null, Undef, Bool(FALSE), Num(0), Str(""),
    Identity(Arr(<< "editor" >>)), Identity(Arr(<< "viewer" >>)), Identity(Undef) }

Infos ==
  { Null, Undef,
    ErrorObj("TokenExpiredError", "jwt expired"),
    ErrorObj("JsonWebTokenError", "jwt malformed"),
    ErrorObj("JsonWebTokenError", "No auth token"),
    ErrorObj("NotBeforeError", "jwt not active"),
    NoTokenInfo,
    ErrorObj("Error", "no auth token"),
    ErrorObj("Error", "No auth"),
    ErrorObj("Error", "Some other error"),
    Str("No auth token") }

AllValidations == [err : Errs, user : Users, info : Infos]

\* Reports for a request of the pipeline: without an Authorization header the
\* token strategy fails with info 'No auth token'; with one, the token is
\* valid, expired or malformed, or validation itself fails.
ValidatorReports(authorization) ==
  IF ~Truthy(authorization)
  THEN { [err |-> Null, user |-> Bool(FALSE), info |-> NoTokenInfo] }
  ELSE { [err |-> Null, user |-> Identity(Arr(<< "editor" >>)), info |-> Undef],
         [err |-> Null, user |-> Identity(Arr(<< "viewer" >>)), info |-> Undef],
         [err |-> Null, user |-> Bool(FALSE),
          info |-> ErrorObj("TokenExpiredError", "jwt expired")],
         [err |-> ErrorObj("Error", "Some error"), user |-> Bool(FALSE), info |-> Undef] }

PipelineRequests ==
  { MkRequest(rid, tid, auth, Undef, host, url, b) :
      rid \in {Undef, Str(""), Str("rid-1")},
      tid \in {Undef, CStr(Chars_tenant123)},
      auth \in {Undef, Str("Bearer x.y.z")},
      host \in {CStr(Chars_localhost), CStr(Chars_acmeHost), Undef},
      url \in {Chars_apiArticles, Chars_health},
      b \in PipelineBodies }

PipelineEndpoints ==
  [isPublic : {Undef, Bool(TRUE)},
   roles : {Undef, Arr(<< "editor" >>)},
   featureFlag : {Undef, Str("beta-reports"), Str("unknown-feature")}]

\* process.env.DEFAULT_TENANT_ID: unset, empty or a tenant id
EnvDefaultTenantIds == {Undef, CStr(<< >>), CStr(Chars_acme)}

\* process.env.DEFAULT_TENANT_ID || null
DefaultTenants == { OrElse(e, Null) : e \in EnvDefaultTenantIds }

\* A plain request, endpoint and validator report, used where one stage is
\* exercised alone.
PlainRequest ==
  MkRequest(Undef, Undef, Undef, Undef, CStr(Chars_localhost), Chars_apiArticles, NoBody)
PlainEndpoint == [isPublic |-> Undef, roles |-> Undef, featureFlag |-> Undef]
PlainValidation == [err |-> Null, user |-> Identity(Arr(<< "editor" >>)), info |-> Undef]

RequestIds == {Undef, Null, Str(""), Str("rid-1")}

\* ------------------------------------------------------------------------
\* Specifications
\* ------------------------------------------------------------------------
\* Only request r is in flight, with inputs q, e and v; the other request
\* stays idle.
Single(r, q, e, v) ==
  /\ active = {r}
  /\ req = [x \in Requests |-> IF x = r THEN q ELSE PlainRequest]
  /\ endpoint = [x \in Requests |-> IF x = r THEN e ELSE PlainEndpoint]
  /\ validation = [x \in Requests |-> IF x = r THEN v ELSE PlainValidation]

\* One request through the whole pipeline.
Init ==
  /\ defaultTenant \in DefaultTenants
  /\ \E q \in PipelineRequests, e \in PipelineEndpoints :
       \E v \in ValidatorReports(q.headers.authorization) : Single("r1", q, e, v)
  /\ requestId = [r \in Requests |-> Undef]
  /\ tenantContext = [r \in Requests |-> Undef]
  /\ user = [r \in Requests |-> Undef]
  /\ InitState("RequestId")

Next ==
  \E r \in Requests :
    \/ RequestIdUse(r)
    \/ LoggerUse(r)
    \/ TenantUse(r)
    \/ JwtAuthCanActivate(r)
    \/ JwtAuthHandleRequest(r)
    \/ RolesGuardCanActivate(r)
    \/ FeatureFlagGuardCanActivate(r)
    \/ Handler(r)
    \/ Finish(r)

Spec == Init /\ [][Next]_vars

\* -- JwtAuthGuard alone, on any request context and any validator report --
PublicMarkers == {Undef, Null, Bool(FALSE), Bool(TRUE)}

InitJwt ==
  /\ defaultTenant = Null
  /\ \E isPublic \in PublicMarkers, v \in AllValidations :
       Single("r1", PlainRequest, [PlainEndpoint EXCEPT !.isPublic = isPublic], v)
  /\ \E id \in RequestIds : requestId = [r \in Requests |-> IF r = "r1" THEN id ELSE Undef]
  /\ tenantContext = [r \in Requests |-> Undef]
  /\ user = [r \in Requests |-> Undef]
  /\ InitState("JwtAuth")

NextJwt == \E r \in Requests : JwtAuthCanActivate(r) \/ JwtAuthHandleRequest(r)

SpecJwt == InitJwt /\ [][NextJwt]_vars

\* -- RolesGuard alone, on any role requirement and any request.user --
RoleNames == {"admin", "editor", "user"}

\* Longest role list explored.
MaxRoles == 2

RoleLists == UNION { [1..n -> RoleNames] : n \in 0..MaxRoles }

RoleRequirements == {Undef, Null} \cup { Arr(l) : l \in RoleLists }

AttachedUsers == {Undef, Null, Identity(Undef)} \cup { Identity(Arr(l)) : l \in RoleLists }

InitRoles ==
  /\ defaultTenant = Null
  /\ \E roles \in RoleRequirements :
       Single("r1", PlainRequest, [PlainEndpoint EXCEPT !.roles = roles], PlainValidation)
  /\ \E id \in RequestIds : requestId = [r \in Requests |-> IF r = "r1" THEN id ELSE Undef]
  /\ tenantContext = [r \in Requests |-> Undef]
  /\ \E u \in AttachedUsers : user = [r \in Requests |-> IF r = "r1" THEN u ELSE Undef]
  /\ InitState("Roles")

NextRoles == \E r \in Requests : RolesGuardCanActivate(r)

SpecRoles == InitRoles /\ [][NextRoles]_vars

\* -- FeatureFlagGuard alone, on any feature requirement and tenant context --
FeatureRequirements ==
  {Undef, Null, Str("new-dashboard"), Str("beta-reports"), Str("disabled-feature")}

TenantCtx(tenantId, source) == [t |-> "object", tenantId |-> tenantId, source |-> source]

TenantContexts ==
  { Undef, Null,
    TenantCtx(CStr(Chars_tenant123), "header"), TenantCtx(CStr(Chars_tenant456), "header"),
    TenantCtx(CStr(<< >>), "header"), TenantCtx(Undef, "header"),
    [t |-> "object", tenantId |-> CStr(Chars_tenant123), subdomain |-> CStr(Chars_tenant123),
     source |-> "subdomain"],
    TenantCtx(CStr(Chars_acme), "default") }

InitFeature ==
  /\ defaultTenant = Null
  /\ \E flag \in FeatureRequirements :
       Single("r1", PlainRequest, [PlainEndpoint EXCEPT !.featureFlag = flag], PlainValidation)
  /\ \E id \in RequestIds : requestId = [r \in Requests |-> IF r = "r1" THEN id ELSE Undef]
  /\ \E tc \in TenantContexts :
       tenantContext = [r \in Requests |-> IF r = "r1" THEN tc ELSE Undef]
  /\ user = [r \in Requests |-> Undef]
  /\ InitState("Feature")

NextFeature == \E r \in Requests : FeatureFlagGuardCanActivate(r)

SpecFeature == InitFeature /\ [][NextFeature]_vars

\* -- LoggerMiddleware alone, on any request body --
UserAgents == {Undef, Str("jest")}

InitLogger ==
  /\ defaultTenant = Null
  /\ \E b \in AllBodies, ua \in UserAgents :
       Single("r1",
              MkRequest(Undef, Undef, Undef, ua, CStr(Chars_localhost), Chars_apiArticles, b),
              PlainEndpoint, PlainValidation)
  /\ \E id \in RequestIds : requestId = [r \in Requests |-> IF r = "r1" THEN id ELSE Undef]
  /\ tenantContext = [r \in Requests |-> Undef]
  /\ user = [r \in Requests |-> Undef]
  /\ InitState("Logger")

NextLogger == \E r \in Requests : LoggerUse(r)

SpecLogger == InitLogger /\ [][NextLogger]_vars

\* -- TenantContextMiddleware alone, on any path, header, hostname and default --
InitTenant ==
  /\ defaultTenant \in DefaultTenants
  /\ \E tid \in TenantHeaders, host \in HostnameReads, url \in Paths :
       Single("r1", MkRequest(Undef, tid, Undef, Undef, host, url, NoBody),
              PlainEndpoint, PlainValidation)
  /\ \E id \in RequestIds : requestId = [r \in Requests |-> IF r = "r1" THEN id ELSE Undef]
  /\ tenantContext = [r \in Requests |-> Undef]
  /\ user = [r \in Requests |-> Undef]
  /\ InitState("Tenant")

NextTenant == \E r \in Requests : TenantUse(r)

\* -- TenantContextMiddleware.use with a next callback that may throw --
NextOutcomes ==
  { Returned(Undef), Threw(ErrorObj("Error", "downstream failure")), Threw(Str("oops")) }

InitTenantNext ==
  /\ defaultTenant = Null
  /\ \E tid \in TenantHeaders, host \in HostnameReads, url \in Paths, n \in NextOutcomes :
       Single("r1",
              [MkRequest(Undef, tid, Undef, Undef, host, url, NoBody) EXCEPT !.next = n],
              PlainEndpoint, PlainValidation)
  /\ \E id \in RequestIds : requestId = [r \in Requests |-> IF r = "r1" THEN id ELSE Undef]
  /\ tenantContext = [r \in Requests |-> Undef]
  /\ user = [r \in Requests |-> Undef]
  /\ InitState("Tenant")

SpecTenantNext == InitTenantNext /\ [][NextTenant]_vars

SpecTenant == InitTenant /\ [][NextTenant]_vars

\* -- the logger around the rest of the pipeline, on any clock and status --
\* Date.now() at the start of LoggerMiddleware.use and at 'finish'; the clock
\* does not run backwards.
Clocks ==
  { [start |-> 1000, finish |-> 1000], [start |-> 1000, finish |-> 1045],
    [start |-> 2000, finish |-> 2001] }

InitCompletion ==
  /\ defaultTenant = Null
  /\ \E c \in Clocks, ua \in UserAgents, b \in PipelineBodies, e \in PipelineEndpoints :
       \E v \in ValidatorReports(Undef) \cup ValidatorReports(Str("Bearer x.y.z")) :
         Single("r1",
                [MkRequest(Undef, Undef, Undef, ua, CStr(Chars_localhost), Chars_apiArticles, b)
                   EXCEPT !.clock = c],
                e, v)
  /\ \E id \in RequestIds : requestId = [r \in Requests |-> IF r = "r1" THEN id ELSE Undef]
  /\ tenantContext = [r \in Requests |-> Undef]
  /\ user = [r \in Requests |-> Undef]
  /\ InitState("Logger")

NextCompletion ==
  \E r \in Requests :
    \/ LoggerUse(r)
    \/ TenantUse(r)
    \/ JwtAuthCanActivate(r)
    \/ JwtAuthHandleRequest(r)
    \/ RolesGuardCanActivate(r)
    \/ FeatureFlagGuardCanActivate(r)
    \/ Handler(r)
    \/ Finish(r)

SpecCompletion == InitCompletion /\ [][NextCompletion]_vars

\* -- two requests in flight through the same middleware and guard objects --
\* r1: /api/articles with a body; r2: another path, host and tenant header
ConcurrentFirst ==
  { MkRequest(rid, tid, auth, Undef, CStr(Chars_localhost), Chars_apiArticles,
              [body |-> Ref(1), heap |-> MkHeap(1, "password", Str("hunter2"), << >>, 0)]) :
      rid \in {Undef, Str("rid-1")},
      tid \in {Undef, CStr(Chars_tenant123)},
      auth \in {Undef, Str("Bearer x.y.z")} }

ConcurrentSecond ==
  { MkRequest(rid, tid, Str("Bearer x.y.z"), Undef, CStr(Chars_acmeHost), Path_apiAuthLogin,
              NoBody) :
      rid \in {Undef, Str("rid-2")},
      tid \in {Undef, CStr(Chars_t1)} }

ConcurrentEndpoints ==
  { PlainEndpoint,
    [isPublic |-> Undef, roles |-> Arr(<< "editor" >>), featureFlag |-> Str("beta-reports")] }

InitConcurrent ==
  /\ defaultTenant = Null
  /\ active = Requests
  /\ \E q1 \in ConcurrentFirst, q2 \in ConcurrentSecond, e \in ConcurrentEndpoints :
       \E v \in ValidatorReports(q1.headers.authorization) :
         /\ req = [r \in Requests |-> IF r = "r1" THEN q1 ELSE q2]
         /\ endpoint = [r \in Requests |-> IF r = "r1" THEN e ELSE PlainEndpoint]
         /\ validation =
              [r \in Requests |->
                 IF r = "r1" THEN v
                 ELSE [err |-> Null, user |-> Identity(Arr(<< "viewer" >>)), info |-> Undef]]
  /\ requestId = [r \in Requests |-> Undef]
  /\ tenantContext = [r \in Requests |-> Undef]
  /\ user = [r \in Requests |-> Undef]
  /\ InitState("RequestId")

SpecConcurrent == InitConcurrent /\ [][Next]_vars

\* ------------------------------------------------------------------------
\* Properties
\* ------------------------------------------------------------------------
Range(seq) == { seq[i] : i \in 1..Len(seq) }

FalsyValues == {Undef, Null, Bool(FALSE), Num(0), Str("")}

\* Request r was rejected once, by the given stage, with this status, code
\* and message.
RejectedBy(r, stage, status, code, message) ==
  /\ Len(thrown[r]) = 1
  /\ thrown[r][1].stage = stage
  /\ thrown[r][1].exception.status = status
  /\ thrown[r][1].exception.response.code = code
  /\ thrown[r][1].exception.response.message = message

ExpiredSignal(info) == info.t = "object" /\ info.cls = "TokenExpiredError"
InvalidSignal(info) == info.t = "object" /\ info.cls \in {"JsonWebTokenError", "NotBeforeError"}
MissingSignal(info) == info.t = "object" /\ info.message = "No auth token"

\* handleRequest has been called for r and has returned or thrown
HandleRequestDone(r) == validatorCalls[r] > 0 /\ pc[r] # "Validating"

\* C1: handleRequest answers an expired-token info with TOKEN_EXPIRED, else
\* an invalid-token info with INVALID_TOKEN, else an info with message
\* 'No auth token' with TOKEN_MISSING, whatever err and user are.
JwtSignalPrecedence ==
  \A r \in Requests :
    HandleRequestDone(r) =>
      LET info == validation[r].info IN
      /\ ExpiredSignal(info) =>
           RejectedBy(r, "AuthenticationGate", 401, "TOKEN_EXPIRED", "Token has expired")
      /\ (~ExpiredSignal(info) /\ InvalidSignal(info)) =>
           RejectedBy(r, "AuthenticationGate", 401, "INVALID_TOKEN", "Invalid token")
      /\ (~ExpiredSignal(info) /\ ~InvalidSignal(info) /\ MissingSignal(info)) =>
           RejectedBy(r, "AuthenticationGate", 401, "TOKEN_MISSING",
                      "Authentication token is required")

\* An expired token wins over a valid identity and a generic err.
JwtSignalPrecedenceWitness ==
  \E r \in Requests :
    /\ HandleRequestDone(r)
    /\ ExpiredSignal(validation[r].info)
    /\ validation[r].user = Identity(Arr(<< "editor" >>))
    /\ validation[r].err # Null
    /\ RejectedBy(r, "AuthenticationGate", 401, "TOKEN_EXPIRED", "Token has expired")

\* C2: without any of the three token signals, handleRequest rejects with
\* UNAUTHORIZED iff err is set or the identity is falsy; otherwise the
\* identity is returned unchanged and no rejection is produced.
JwtUnauthorizedIffErrOrNoUser ==
  \A r \in Requests :
    LET info == validation[r].info IN
    (HandleRequestDone(r) /\ ~ExpiredSignal(info) /\ ~InvalidSignal(info)
       /\ ~MissingSignal(info)) =>
      IF validation[r].err \notin {Null, Undef} \/ validation[r].user \in FalsyValues
      THEN /\ RejectedBy(r, "AuthenticationGate", 401, "UNAUTHORIZED", "Unauthorized access")
           /\ user[r] = Undef
      ELSE /\ thrown[r] = << >>
           /\ user[r] = validation[r].user

\* A differently-cased 'no auth token' info with a valid identity authenticates.
JwtUnauthorizedIffErrOrNoUserWitness ==
  \E r \in Requests :
    /\ HandleRequestDone(r)
    /\ validation[r].info = ErrorObj("Error", "no auth token")
    /\ validation[r].err = Null
    /\ thrown[r] = << >>
    /\ user[r] = Identity(Arr(<< "editor" >>))

\* C3: on a public endpoint canActivate lets the request through without
\* calling the validator; on any other endpoint (false, undefined, null) the
\* validator is called once and the request passes iff it did not reject.
JwtPublicBypass ==
  \A r \in Requests :
    IF "AuthenticationGate" \notin Range(trace[r])
    THEN validatorCalls[r] = 0
    ELSE IF endpoint[r].isPublic = Bool(TRUE)
    THEN validatorCalls[r] = 0 /\ thrown[r] = << >> /\ pc[r] = "Roles"
    ELSE /\ validatorCalls[r] = 1
         /\ pc[r] \in {"Validating", "Roles", "Respond"}
         /\ pc[r] = "Roles" => (thrown[r] = << >> /\ user[r] = validation[r].user)
         /\ pc[r] = "Respond" => Len(thrown[r]) = 1

JwtPublicBypassWitness ==
  \E r \in Requests :
    /\ endpoint[r].isPublic = Bool(TRUE)
    /\ "AuthenticationGate" \in Range(trace[r])
    /\ validatorCalls[r] = 0
    /\ pc[r] = "Roles"

\* the roles an identity holds, the empty list when it has no roles property
HeldRoles(identity) == IF identity.roles = Undef THEN << >> ELSE identity.roles.v

RolesGateRan(r) == "AuthorizationGate" \in Range(trace[r])

\* C4: RolesGuard allows on an empty or absent requirement; otherwise, for an
\* attached identity, it allows iff some required role is among the
\* identity's roles, and else rejects with INSUFFICIENT_ROLES and both lists
\* in their original order.
RolesOrSemantics ==
  \A r \in Requests :
    RolesGateRan(r) =>
      LET required == endpoint[r].roles IN
      IF required \in {Undef, Null, Arr(<< >>)}
      THEN thrown[r] = << >> /\ pc[r] = "Feature"
      ELSE user[r].t = "object" =>
             IF Range(required.v) \cap Range(HeldRoles(user[r])) # {}
             THEN thrown[r] = << >> /\ pc[r] = "Feature"
             ELSE /\ RejectedBy(r, "AuthorizationGate", 403, "INSUFFICIENT_ROLES",
                                "Insufficient permissions")
                  /\ thrown[r][1].exception.response.requiredRoles = required.v
                  /\ thrown[r][1].exception.response.userRoles = HeldRoles(user[r])

\* One of two required roles is held, in another position of the user's list.
RolesOrSemanticsWitness ==
  \E r \in Requests :
    /\ RolesGateRan(r)
    /\ endpoint[r].roles = Arr(<< "admin", "editor" >>)
    /\ user[r] = Identity(Arr(<< "user", "editor" >>))
    /\ thrown[r] = << >>
    /\ pc[r] = "Feature"

\* C5: with a non-empty role requirement and no identity on the request
\* (undefined or null), RolesGuard rejects with USER_NOT_FOUND, not with the
\* outcome of a role comparison.
RolesUserNotFound ==
  \A r \in Requests :
    (/\ RolesGateRan(r)
     /\ endpoint[r].roles \notin {Undef, Null, Arr(<< >>)}
     /\ user[r] \in {Undef, Null}) =>
      RejectedBy(r, "AuthorizationGate", 403, "USER_NOT_FOUND", "User not Authenticated")

RolesUserNotFoundWitness ==
  \E r \in Requests :
    /\ RolesGateRan(r)
    /\ endpoint[r].roles = Arr(<< "admin" >>)
    /\ user[r] = Null
    /\ RejectedBy(r, "AuthorizationGate", 403, "USER_NOT_FOUND", "User not Authenticated")

\* the tenant id the feature gate sees, Undef without a tenant context
ResolvedTenantId(r) ==
  IF tenantContext[r] \in {Undef, Null} THEN Undef ELSE tenantContext[r].tenantId

FeatureRejected(r) ==
  /\ RejectedBy(r, "FeatureGate", 403, "FEATURE_DISABLED", "Feature not available")
  /\ thrown[r][1].exception.response.feature = endpoint[r].featureFlag.v

\* C6: FeatureFlagGuard allows on an absent requirement, rejects a flag that
\* is not globally enabled whatever the tenant, and rejects a globally
\* enabled flag exactly when the tenant id is on that flag's exclusion list.
FeatureGateDecision ==
  \A r \in Requests :
    "FeatureGate" \in Range(trace[r]) =>
      LET flag == endpoint[r].featureFlag IN
      IF flag \in {Undef, Null}
      THEN thrown[r] = << >> /\ pc[r] = "Handler"
      ELSE IF flag.v \notin {"new-dashboard", "beta-reports"}
      THEN FeatureRejected(r)
      ELSE IF flag.v = "beta-reports" /\ ResolvedTenantId(r) = CStr(Chars_tenant123)
      THEN FeatureRejected(r)
      ELSE thrown[r] = << >> /\ pc[r] = "Handler"

FeatureGateDecisionWitness ==
  \E r \in Requests :
    /\ endpoint[r].featureFlag = Str("beta-reports")
    /\ ResolvedTenantId(r) = CStr(Chars_tenant123)
    /\ FeatureRejected(r)

\* ---- the composed pipeline ----
ClaimedOrder == << "RequestIdentifier", "RequestLoggerStart", "TenantResolver",
                   "AuthenticationGate", "AuthorizationGate", "FeatureGate", "Handler" >>

IsPrefix(s, t) == Len(s) <= Len(t) /\ SubSeq(t, 1, Len(s)) = s

\* the stages run so far, without the closing RequestLoggerEnd
StagesBeforeEnd(r) ==
  IF trace[r] # << >> /\ trace[r][Len(trace[r])] = "RequestLoggerEnd"
  THEN SubSeq(trace[r], 1, Len(trace[r]) - 1)
  ELSE trace[r]

\* C7: the stages of a request run in the order RequestIdentifier,
\* RequestLogger(start), TenantResolver, AuthenticationGate,
\* AuthorizationGate, FeatureGate, handler, RequestLogger(end): a stage runs
\* only after all stages before it, and requestId, tenantContext and user
\* are only set once their writer has run.
StagesRunInOrder ==
  \A r \in Requests :
    /\ IsPrefix(StagesBeforeEnd(r), ClaimedOrder)
    /\ StagesBeforeEnd(r) # trace[r] => "RequestLoggerStart" \in Range(StagesBeforeEnd(r))
    /\ requestId[r] # Undef => "RequestIdentifier" \in Range(trace[r])
    /\ tenantContext[r] # Undef => "TenantResolver" \in Range(trace[r])
    /\ user[r] # Undef => "AuthenticationGate" \in Range(trace[r])

StagesRunInOrderWitness ==
  \E r \in Requests : trace[r] = Append(ClaimedOrder, "RequestLoggerEnd")

Gates == {"TenantResolver", "AuthenticationGate", "AuthorizationGate", "FeatureGate"}

\* C8: once TenantResolver or a guard has rejected the request, no later
\* gate and not the handler runs and no second rejection is produced.
RejectionIsTerminal ==
  \A r \in Requests :
    /\ Len(thrown[r]) <= 1
    /\ (thrown[r] # << >> /\ thrown[r][1].stage \in Gates) =>
         /\ StagesBeforeEnd(r)[Len(StagesBeforeEnd(r))] = thrown[r][1].stage
         /\ "Handler" \notin Range(trace[r])
         /\ pc[r] \in {"Respond", "Done"}

RejectionIsTerminalWitness ==
  \E r \in Requests :
    /\ pc[r] = "Done"
    /\ Len(thrown[r]) = 1
    /\ thrown[r][1].stage = "TenantResolver"
    /\ trace[r] = << "RequestIdentifier", "RequestLoggerStart", "TenantResolver",
                     "RequestLoggerEnd" >>

\* The request of the end-to-end scenario: no x-request-id, no x-tenant-id,
\* no bearer credential, no body, hostname localhost, path /api/articles, a
\* non-public endpoint that requires role editor.
Scenario(r) ==
  /\ r \in active
  /\ req[r].headers.xRequestId = Undef
  /\ req[r].headers.xTenantId = Undef
  /\ req[r].headers.authorization = Undef
  /\ req[r].hostname = CStr(Chars_localhost)
  /\ req[r].originalUrl = CStr(Chars_apiArticles)
  /\ req[r].body = Undef
  /\ endpoint[r].isPublic = Undef
  /\ endpoint[r].roles = Arr(<< "editor" >>)

\* the response carries a generated x-request-id header
GeneratedRequestIdHeader(r) ==
  \E i \in 1..Len(setHeaderCalls[r]) :
    /\ setHeaderCalls[r][i].name = "x-request-id"
    /\ setHeaderCalls[r][i].value \in {Str("uuid-1"), Str("uuid-2")}

FailsAtAuthenticationGate(r, code, message) ==
  /\ pc[r] \notin {"Roles", "Feature", "Handler"}
  /\ pc[r] = "Done" =>
       /\ RejectedBy(r, "AuthenticationGate", 401, code, message)
       /\ "AuthorizationGate" \notin Range(trace[r])
       /\ "FeatureGate" \notin Range(trace[r])
       /\ GeneratedRequestIdHeader(r)

\* C9 as stated: the scenario fails at the AuthenticationGate with kind
\* UNAUTHORIZED.
EndToEndUnauthorized ==
  \A r \in Requests : Scenario(r) => FailsAtAuthenticationGate(r, "UNAUTHORIZED",
                                                                "Unauthorized access")

\* C9, amended: the scenario fails at the AuthenticationGate with kind
\* TOKEN_MISSING, before the AuthorizationGate or FeatureGate is reached, and
\* the response carries a generated x-request-id header.
EndToEndTokenMissing ==
  \A r \in Requests : Scenario(r) => FailsAtAuthenticationGate(r, "TOKEN_MISSING",
                                                                "Authentication token is required")

EndToEndTokenMissingWitness ==
  \E r \in Requests :
    /\ Scenario(r)
    /\ pc[r] = "Done"
    /\ RejectedBy(r, "AuthenticationGate", 401, "TOKEN_MISSING",
                  "Authentication token is required")
    /\ GeneratedRequestIdHeader(r)

\* ---- sanitizeBody ----
RECURSIVE SensitiveKeysRedacted(_, _)
\* every sensitive key of the mapping id of the object store h, and of every
\* mapping nested in it, maps to "[REDACTED]", unless the key holds undefined
\* (which is none of string, number, boolean, null, mapping or array)
SensitiveKeysRedacted(h, id) ==
  \A k \in DOMAIN h[id] :
    /\ k \in {"password", "token", "secret", "authorization", "creditCard", "cvv"} =>
         h[id][k] \in {Str("[REDACTED]"), Undef}
    /\ h[id][k].t = "ref" => SensitiveKeysRedacted(h, h[id][k].id)

\* C10: in the result of sanitizeBody every key named password, token,
\* secret, authorization, creditCard or cvv, at any depth reachable through
\* mappings, maps to "[REDACTED]" whatever the original value was.
SanitizeRedactsSensitiveKeys ==
  \A r \in Requests :
    (sanitizedBody[r].called /\ ~sanitizedBody[r].threw) =>
      SensitiveKeysRedacted(sanitizedBody[r].heap, sanitizedBody[r].value.id)

RECURSIVE SelfReferential(_, _, _)
\* the mapping id of h contains, directly or through nested mappings, a
\* mapping that is on the path from the root to it (onPath) or itself
SelfReferential(h, id, onPath) ==
  \E k \in DOMAIN h[id] :
    /\ h[id][k].t = "ref"
    /\ \/ h[id][k].id \in onPath \cup {id}
       \/ SelfReferential(h, h[id][k].id, onPath \cup {id})

\* v is the marker mapping {"[Circular]": true}
IsCircularMarker(h, v) == v.t = "ref" /\ h[v.id] = ("[Circular]" :> Bool(TRUE))

RECURSIVE CyclesMarked(_, _, _, _, _)
\* in the result h1[id1] of sanitizing h0[id0]: under a non-sensitive key, a
\* slot that closes a cycle holds the marker, another mapping is sanitized in
\* turn and any other value is unchanged; a sensitive key holding a
\* non-empty string is redacted
CyclesMarked(h0, id0, h1, id1, onPath) ==
  /\ DOMAIN h1[id1] = DOMAIN h0[id0]
  /\ \A k \in DOMAIN h0[id0] :
       LET v0 == h0[id0][k]
           v1 == h1[id1][k]
       IN IF k \in {"password", "token", "secret", "authorization", "creditCard", "cvv"}
          THEN v0 \in {Str("hunter2"), Str("abc123")} => v1 = Str("[REDACTED]")
          ELSE IF v0.t # "ref" THEN v1 = v0
          ELSE IF v0.id \in onPath \cup {id0} THEN IsCircularMarker(h1, v1)
          ELSE v1.t = "ref" /\ CyclesMarked(h0, v0.id, h1, v1.id, onPath \cup {id0})

\* C11: on a self-referential body sanitizeBody returns without raising an
\* error, the slot that closes the cycle holds {"[Circular]": true} and the
\* other fields are sanitized as usual.
SanitizeMarksCycles ==
  \A r \in Requests :
    (sanitizedBody[r].called /\ SelfReferential(req[r].heap, req[r].body.id, {})) =>
      /\ ~sanitizedBody[r].threw
      /\ CyclesMarked(req[r].heap, req[r].body.id,
                      sanitizedBody[r].heap, sanitizedBody[r].value.id, {})

UnableToSerialize == Str("[Unable to serialize - circular reference detected]")

\* sanitizing or serializing the body of r failed
SerializationFailed(r) ==
  \/ sanitizedBody[r].threw
  \/ JsonThrows(sanitizedBody[r].heap, sanitizedBody[r].value, {})

\* C12: LoggerMiddleware.use does not throw because of the body: it calls
\* next(), and when serializing the sanitized body fails the debug record is
\* '[<id>] Body: [Unable to serialize - circular reference detected]'.
LoggerNeverThrowsOnBody ==
  \A r \in Requests :
    sanitizedBody[r].called =>
      /\ \A i \in 1..Len(thrown[r]) : thrown[r][i].stage # "RequestLoggerStart"
      /\ pc[r] # "Respond" \/ "TenantResolver" \in Range(trace[r])
      /\ SerializationFailed(r) =>
           \E i \in 1..Len(log) :
             /\ log[i].kind = "Body"
             /\ log[i].level = "debug"
             /\ log[i].requestId = RequestIdOrDefault(requestId[r])
             /\ log[i].body = UnableToSerialize

RECURSIVE ArraysVerbatim(_, _, _, _)
\* in the result h1[id1] of sanitizing h0[id0], at every depth, a
\* non-sensitive key that holds an array in the input holds the same array
ArraysVerbatim(h0, id0, h1, id1) ==
  \A k \in DOMAIN h0[id0] :
    LET v0 == h0[id0][k]
        v1 == h1[id1][k]
    IN /\ (v0.t = "array"
             /\ k \notin {"password", "token", "secret", "authorization", "creditCard", "cvv"})
            => v1 = v0
       /\ (v0.t = "ref" /\ v1.t = "ref") => ArraysVerbatim(h0, v0.id, h1, v1.id)

\* C13: sanitizeBody passes an array under a non-sensitive key through
\* verbatim: the result holds the same array with the same elements, and a
\* mapping that is an element of the array keeps its sensitive values.
SanitizeKeepsArrays ==
  \A r \in Requests :
    (sanitizedBody[r].called /\ ~sanitizedBody[r].threw) =>
      ArraysVerbatim(req[r].heap, req[r].body.id,
                     sanitizedBody[r].heap, sanitizedBody[r].value.id)

\* an array whose element is a mapping with a password comes back as it was
SanitizeKeepsArraysWitness ==
  \E r \in Requests :
    /\ sanitizedBody[r].called
    /\ ~sanitizedBody[r].threw
    /\ 2 \in DOMAIN req[r].heap
    /\ req[r].heap[2] = ("name" :> Arr(<< Ref(0) >>))
    /\ LET h1 == sanitizedBody[r].heap
           top == h1[sanitizedBody[r].value.id]
       IN /\ top["token"] = Str("[REDACTED]")
          /\ top["user"].t = "ref"
          /\ h1[top["user"].id]["name"] = Arr(<< Ref(0) >>)
          /\ h1[0]["password"] = Str("hunter2")

RECURSIVE AllNew(_, _, _)
\* the mapping id of h and every mapping nested in it is none of the
\* mappings old
AllNew(h, id, old) ==
  /\ id \notin old
  /\ \A k \in DOMAIN h[id] : h[id][k].t = "ref" => AllNew(h, h[id][k].id, old)

\* C14: sanitizeBody leaves every mapping of its input with the keys and
\* values it had before the call, and the mapping it returns and every
\* mapping nested in it is a new one.
SanitizeDoesNotMutate ==
  \A r \in Requests :
    sanitizedBody[r].called =>
      /\ \A id \in DOMAIN req[r].heap : sanitizedBody[r].heap[id] = req[r].heap[id]
      /\ ~sanitizedBody[r].threw =>
           AllNew(sanitizedBody[r].heap, sanitizedBody[r].value.id, DOMAIN req[r].heap)

\* a nested sensitive value is redacted in the result and still present in
\* the input
SanitizeDoesNotMutateWitness ==
  \E r \in Requests :
    /\ sanitizedBody[r].called
    /\ ~sanitizedBody[r].threw
    /\ 2 \in DOMAIN req[r].heap
    /\ req[r].heap[2] = ("password" :> Str("hunter2"))
    /\ LET h1 == sanitizedBody[r].heap
           top == h1[sanitizedBody[r].value.id]
       IN /\ h1[1]["token"] = Str("abc123")
          /\ h1[2]["password"] = Str("hunter2")
          /\ top["token"] = Str("[REDACTED]")
          /\ top["user"].t = "ref"
          /\ h1[top["user"].id]["password"] = Str("[REDACTED]")

\* ---- TenantContextMiddleware ----
TenantRan(r) == "TenantResolver" \in Range(trace[r])

\* the path equals an excluded path or continues one after a '/'
ClaimedExcluded(path) ==
  \E p \in {Chars_health, Chars_apiPublic, Chars_apiAuthRegister} :
    path = p \/ IsPrefix(p \o << "/" >>, path)

DotPositions(cs) == { i \in 1..Len(cs) : cs[i] = "." }

LabelCount(cs) == Cardinality(DotPositions(cs)) + 1

\* the characters before the first dot
FirstLabel(cs) ==
  IF DotPositions(cs) = {} THEN cs
  ELSE SubSeq(cs, 1, (CHOOSE i \in DotPositions(cs) : \A j \in DotPositions(cs) : i <= j) - 1)

\* four non-empty groups of digits separated by dots
IsIPv4Literal(cs) ==
  /\ LabelCount(cs) = 4
  /\ \A i \in 1..Len(cs) : cs[i] \in Digits \cup {"."}
  /\ cs # << >> /\ cs[1] # "." /\ cs[Len(cs)] # "."
  /\ \A i \in 1..(Len(cs) - 1) : ~(cs[i] = "." /\ cs[i + 1] = ".")

ReservedLabels ==
  { << "w", "w", "w" >>, << "a", "p", "i" >>, << "a", "d", "m", "i", "n" >>, << "a", "p", "p" >> }

\* the hostname has a subdomain
ClaimedSubdomain(cs) ==
  /\ cs # Chars_localhost
  /\ ~IsIPv4Literal(cs)
  /\ LabelCount(cs) >= 3
  /\ FirstLabel(cs) \notin ReservedLabels

\* the x-tenant-id request header carries a value
HeaderSupplied(hdr) == hdr \notin {Undef, CStr(<< >>)}

TenantHeaderWrites(r) ==
  SelectSeq(setHeaderCalls[r], LAMBDA c : c.name = "x-tenant-id")

\* r went through TenantContextMiddleware without a rejection
TenantPassed(r) == thrown[r] = << >> /\ pc[r] = "JwtAuth"

\* C15: on a non-excluded path a supplied x-tenant-id header gives source
\* 'header' (its first element when several values were supplied) whatever
\* the hostname; without one, a hostname with a non-empty subdomain gives
\* source 'subdomain' whatever the default; without either, a non-empty
\* default gives source 'default'; otherwise the tenant context is null and
\* the request proceeds.
TenantPrecedence ==
  \A r \in Requests :
    (TenantRan(r) /\ ~ClaimedExcluded(req[r].originalUrl.c)) =>
      LET hdr == req[r].headers.xTenantId
          host == req[r].hostname
      IN IF HeaderSupplied(hdr)
         THEN /\ tenantContext[r] =
                   [t |-> "object", tenantId |-> IF hdr.t = "array" THEN hdr.v[1] ELSE hdr,
                    source |-> "header"]
              /\ TenantPassed(r)
         ELSE host.t = "string" =>
                /\ TenantPassed(r)
                /\ IF ClaimedSubdomain(host.c) /\ FirstLabel(host.c) # << >>
                   THEN tenantContext[r] =
                          [t |-> "object", tenantId |-> CStr(FirstLabel(host.c)),
                           subdomain |-> CStr(FirstLabel(host.c)), source |-> "subdomain"]
                   ELSE IF defaultTenant \notin {Null, Undef, CStr(<< >>)}
                   THEN tenantContext[r] =
                          [t |-> "object", tenantId |-> defaultTenant, source |-> "default"]
                   ELSE tenantContext[r] = Null

\* header ['t1', 't2'] on acme.example.com with a default configured: t1, header
TenantPrecedenceWitness ==
  \E r \in Requests :
    /\ TenantRan(r)
    /\ req[r].originalUrl = CStr(Chars_apiArticles)
    /\ req[r].headers.xTenantId = Arr(<< CStr(Chars_t1), CStr(Chars_t2) >>)
    /\ req[r].hostname = CStr(Chars_acmeHost)
    /\ defaultTenant = CStr(Chars_acme)
    /\ tenantContext[r] = [t |-> "object", tenantId |-> CStr(Chars_t1), source |-> "header"]

\* C16: on an excluded path (equal to '/health', '/api/public' or
\* '/api/auth/register', or continuing one after '/') the tenant context is
\* null, nothing is thrown, x-tenant-id is not written and next() is called,
\* whatever the headers and the hostname; on any other path a supplied
\* header is resolved.
ExcludedPathsSkipResolution ==
  \A r \in Requests :
    TenantRan(r) =>
      IF ClaimedExcluded(req[r].originalUrl.c)
      THEN /\ tenantContext[r] = Null
           /\ TenantHeaderWrites(r) = << >>
           /\ TenantPassed(r)
      ELSE HeaderSupplied(req[r].headers.xTenantId) =>
             /\ tenantContext[r] \notin {Null, Undef}
             /\ tenantContext[r].source = "header"
             /\ Len(TenantHeaderWrites(r)) = 1

\* '/health/x' with a tenant header and a hostname whose read would throw
ExcludedPathsSkipResolutionWitness ==
  \E r \in Requests :
    /\ TenantRan(r)
    /\ req[r].originalUrl = CStr(Path_healthX)
    /\ req[r].headers.xTenantId = CStr(Chars_tenant123)
    /\ req[r].hostname = Throwing(Null)
    /\ tenantContext[r] = Null
    /\ TenantHeaderWrites(r) = << >>
    /\ TenantPassed(r)

\* C17: extractSubdomain returns the first label of the hostname, verbatim,
\* iff the hostname is not 'localhost', not a dotted-quad IPv4 literal, has
\* at least 3 labels and its first label is none of www, api, admin, app;
\* otherwise it returns null.  A non-empty subdomain it returns becomes the
\* tenant of a request without header.
SubdomainIffThreeLabels ==
  \A r \in Requests :
    (TenantRan(r) /\ req[r].hostname.t = "string") =>
      LET host == req[r].hostname.c
          result == extractSubdomain(req[r].hostname)
      IN /\ ~result.threw
         /\ result.value = IF ClaimedSubdomain(host) THEN CStr(FirstLabel(host)) ELSE Null
         /\ (/\ ~ClaimedExcluded(req[r].originalUrl.c)
             /\ ~HeaderSupplied(req[r].headers.xTenantId)) =>
              IF ClaimedSubdomain(host) /\ FirstLabel(host) # << >>
              THEN /\ tenantContext[r] \notin {Null, Undef}
                   /\ tenantContext[r].source = "subdomain"
                   /\ tenantContext[r].subdomain = CStr(FirstLabel(host))
              ELSE tenantContext[r] = Null \/ tenantContext[r].source = "default"

\* 'WWW.example.com' resolves to tenant 'WWW'
SubdomainIffThreeLabelsWitness ==
  \E r \in Requests :
    /\ TenantRan(r)
    /\ req[r].hostname = CStr(Host_WWW)
    /\ tenantContext[r] \notin {Null, Undef}
    /\ tenantContext[r].source = "subdomain"
    /\ tenantContext[r].subdomain = CStr(<< "W", "W", "W" >>)

\* tenant resolution of r fails internally: the hostname is read and the read
\* throws, or gives undefined
ResolutionFails(r) ==
  /\ ~ClaimedExcluded(req[r].originalUrl.c)
  /\ ~HeaderSupplied(req[r].headers.xTenantId)
  /\ req[r].hostname.t \in {"throws", "undefined"}

\* the text of the value thrown while resolving, 'Unknown error occurred'
\* when it carries none
ClaimedErrorText(r) ==
  LET host == req[r].hostname IN
  IF host.t = "undefined" THEN "Cannot read properties of undefined (reading 'split')"
  ELSE IF host.value.t = "object" /\ host.value.cls \in {"Error", "TypeError"}
          /\ host.value.message # ""
  THEN host.value.message
  ELSE "Unknown error occurred"

\* C18: when tenant resolution fails internally the middleware throws a
\* BadRequestException with message 'Unable to determine tenant context', the
\* request's correlation id and the text of the underlying error, or
\* 'Unknown error occurred' when the thrown value carries no message; next()
\* is not called.
TenantFailureIsBadRequest ==
  \A r \in Requests :
    (TenantRan(r) /\ ResolutionFails(r)) =>
      /\ Len(thrown[r]) = 1
      /\ thrown[r][1].stage = "TenantResolver"
      /\ thrown[r][1].exception.status = 400
      /\ thrown[r][1].exception.response.message = "Unable to determine tenant context"
      /\ thrown[r][1].exception.response.requestId = RequestIdOrDefault(requestId[r])
      /\ thrown[r][1].exception.response.error = ClaimedErrorText(r)
      /\ pc[r] = "Respond"
      /\ "AuthenticationGate" \notin Range(trace[r])

RequestIdHeaderWrites(r) ==
  SelectSeq(setHeaderCalls[r], LAMBDA c : c.name = "x-request-id")

CorrelationId(r) ==
  IF requestId[r] \in {Undef, Null, Str("")} THEN Str("no-request-id") ELSE requestId[r]

\* C21: every rejection payload of the tenant resolver and of the guards
\* has a message, a code and a requestId, the requestId being the request's
\* correlation id or 'no-request-id' when none was set.
RejectionsCarryMessageCodeId ==
  \A r \in Requests :
    \A i \in 1..Len(thrown[r]) :
      thrown[r][i].stage \in Gates =>
        LET payload == thrown[r][i].exception.response IN
        /\ {"message", "code", "requestId"} \subseteq DOMAIN payload
        /\ payload.requestId = CorrelationId(r)

\* a failed tenant resolution whose payload has no code
RejectionWithoutCode ==
  \E r \in Requests :
    \E i \in 1..Len(thrown[r]) :
      /\ thrown[r][i].stage = "TenantResolver"
      /\ thrown[r][i].exception.status = 400
      /\ "code" \notin DOMAIN thrown[r][i].exception.response

\* the records of the log that kind names
RecordsOfKind(kind) == SelectSeq(log, LAMBDA rec : rec.kind = kind)

\* r is the only request in flight and every record, header write, listener
\* and rejection payload made for it carries requestId[r]
SameIdEverywhere(r) ==
  (active = {r} /\ "RequestIdentifier" \in Range(trace[r])) =>
    /\ \A i \in 1..Len(log) : log[i].requestId = requestId[r]
    /\ RequestIdHeaderWrites(r) = << [name |-> "x-request-id", value |-> requestId[r]] >>
    /\ \A i \in 1..Len(finishListeners[r]) : finishListeners[r][i].requestId = requestId[r]
    /\ \A i \in 1..Len(thrown[r]) :
         "response" \in DOMAIN thrown[r][i].exception =>
           thrown[r][i].exception.response.requestId = requestId[r]

\* no step changes a requestId that is set
RequestIdKept ==
  \A r \in Requests : requestId[r] # Undef => requestId'[r] = requestId[r]

\* C22: once RequestIdMiddleware has set requestId no later stage writes it,
\* and the entry record, the body record, the completion record, the
\* x-request-id response header and any rejection payload carry that id.
CorrelationIdImmutable ==
  /\ [](\A r \in Requests : SameIdEverywhere(r))
  /\ [][RequestIdKept]_vars

\* a rejected request whose three records and payload carry the inbound id
CorrelationIdImmutableWitness ==
  \E r \in Requests :
    /\ pc[r] = "Done"
    /\ requestId[r] = Str("rid-1")
    /\ Len(RecordsOfKind("Incoming")) = 1
    /\ Len(RecordsOfKind("Body")) = 1
    /\ Len(RecordsOfKind("Completed")) = 1
    /\ \A i \in 1..Len(log) : log[i].requestId = Str("rid-1")
    /\ Len(thrown[r]) = 1
    /\ thrown[r][1].exception.response.requestId = Str("rid-1")

\* C23: for a request that entered LoggerMiddleware, once the response is
\* finalized exactly one 'Completed' record exists, whether the handler ran
\* or a stage rejected the request.
CompletedExactlyOnce ==
  \A r \in Requests :
    (active = {r} /\ pc[r] = "Done" /\ "RequestLoggerStart" \in Range(trace[r])) =>
      Len(RecordsOfKind("Completed")) = 1

\* a finalized response of a request that entered LoggerMiddleware and has
\* no 'Completed' record
CompletedMissing ==
  \E r \in Requests :
    /\ active = {r} /\ pc[r] = "Done"
    /\ "RequestLoggerStart" \in Range(trace[r])
    /\ statusCode[r] = 500
    /\ RecordsOfKind("Completed") = << >>

\* C24: the level of the completion record is error for a status >= 500,
\* warn for 400..499 and log for any other status, and the record holds the
\* correlation id, the method, the path, the status and the milliseconds
\* between the start of use() and 'finish'.
CompletionSeverityByStatus ==
  \A r \in Requests :
    active = {r} =>
      \A i \in 1..Len(log) :
        log[i].kind = "Completed" =>
          /\ log[i].status = statusCode[r]
          /\ log[i].level = IF log[i].status >= 500 THEN "error"
                            ELSE IF log[i].status \in 400..499 THEN "warn"
                            ELSE "log"
          /\ log[i].requestId = CorrelationId(r)
          /\ log[i].method = req[r].method
          /\ log[i].url = req[r].originalUrl
          /\ log[i].duration = req[r].clock.finish - req[r].clock.start

\* a handler answering 499 after 45 ms is logged at warn level
CompletionSeverityByStatusWitness ==
  \E i \in 1..Len(log) :
    /\ log[i].kind = "Completed"
    /\ log[i].status = 499
    /\ log[i].level = "warn"
    /\ log[i].duration = 45

\* C27: the tenant resolver rejects with 'Unable to determine tenant context'
\* only when the extraction itself fails; what a later stage throws inside
\* the call next() is not caught and turned into that rejection.
TenantRejectsOnlyOwnFailure ==
  \A r \in Requests :
    \A i \in 1..Len(thrown[r]) :
      thrown[r][i].stage = "TenantResolver" => ResolutionFails(r)

RolesRequired(r) == endpoint[r].roles \notin {Undef, Null, Arr(<< >>)}

HandlerRan(r) == "Handler" \in Range(trace[r])

\* C26: in the pipeline the handler of an endpoint that requires roles runs
\* only for a request whose attached identity holds one of them; when the
\* endpoint is also public no identity is attached and the role gate
\* rejects with USER_NOT_FOUND.
RoleProtectedHandler ==
  \A r \in Requests :
    RolesRequired(r) =>
      /\ HandlerRan(r) =>
           /\ user[r] \notin {Undef, Null}
           /\ user[r].t = "object"
           /\ \E i \in 1..Len(endpoint[r].roles.v) :
                Includes(HeldRoles(user[r]), endpoint[r].roles.v[i])
      /\ (endpoint[r].isPublic = Bool(TRUE) /\ RolesGateRan(r)) =>
           /\ user[r] = Undef
           /\ RejectedBy(r, "AuthorizationGate", 403, "USER_NOT_FOUND",
                         "User not Authenticated")
           /\ ~HandlerRan(r)

\* a public endpoint that requires a role, called with a valid editor token
\* and answered by the role gate's USER_NOT_FOUND
RoleProtectedHandlerWitness ==
  \E r \in Requests :
    /\ RolesRequired(r)
    /\ endpoint[r].isPublic = Bool(TRUE)
    /\ Truthy(req[r].headers.authorization)
    /\ validation[r].user = Identity(Arr(<< "editor" >>))
    /\ pc[r] = "Done"
    /\ RejectedBy(r, "AuthorizationGate", 403, "USER_NOT_FOUND", "User not Authenticated")

\* the x-tenant-id header of r names a tenant the flag is disabled for
NamesExcludedTenant(r, flag) ==
  /\ req[r].headers.xTenantId.t = "string"
  /\ disabledForTenants(flag).t = "array"
  /\ Includes(disabledForTenants(flag).v, req[r].headers.xTenantId)

FeatureGateRan(r) == "FeatureGate" \in Range(trace[r])

\* C28: a request whose x-tenant-id header names a tenant in the exclusion
\* list of the flag its endpoint requires is rejected with FEATURE_DISABLED
\* by the feature gate on every path, the excluded prefixes of tenant
\* resolution included.
FeatureExclusionOnEveryPath ==
  \A r \in Requests :
    (/\ FeatureGateRan(r)
     /\ endpoint[r].featureFlag.t = "string"
     /\ NamesExcludedTenant(r, endpoint[r].featureFlag.v)) =>
      /\ Len(thrown[r]) = 1
      /\ thrown[r][1].stage = "FeatureGate"
      /\ thrown[r][1].exception.status = 403
      /\ thrown[r][1].exception.response.code = "FEATURE_DISABLED"
      /\ ~HandlerRan(r)

\* tenant-123 reaches the handler of a beta-reports endpoint through /health
FeatureExclusionBypassed ==
  \E r \in Requests :
    /\ req[r].headers.xTenantId = CStr(Chars_tenant123)
    /\ endpoint[r].featureFlag = Str("beta-reports")
    /\ req[r].originalUrl = CStr(Chars_health)
    /\ tenantContext[r] = Null
    /\ FeatureGateRan(r)
    /\ HandlerRan(r)
    /\ thrown[r] = << >>

\* value is a string of at least one character
NonEmptyString(value) ==
  /\ value.t = "string"
  /\ IF "c" \in DOMAIN value THEN value.c # << >> ELSE value.v # ""

\* C29: a tenant context that TenantContextMiddleware attaches has a
\* non-empty string tenantId, and it has a subdomain field exactly when its
\* source is 'subdomain', the field then being equal to tenantId; for every
\* shape of the x-tenant-id header and every hostname.
TenantContextWellFormed ==
  \A r \in Requests :
    (TenantRan(r) /\ tenantContext[r] \notin {Undef, Null}) =>
      LET ctx == tenantContext[r] IN
      /\ NonEmptyString(ctx.tenantId)
      /\ ("subdomain" \in DOMAIN ctx) <=> (ctx.source = "subdomain")
      /\ ctx.source = "subdomain" => ctx.subdomain = ctx.tenantId

\* the header ['', 't2'] attaches a context whose tenantId is ''
EmptyTenantIdAttached ==
  \E r \in Requests :
    /\ req[r].headers.xTenantId = Arr(<< CStr(<< >>), CStr(Chars_t2) >>)
    /\ TenantRan(r)
    /\ tenantContext[r] \notin {Undef, Null}
    /\ tenantContext[r].source = "header"
    /\ tenantContext[r].tenantId = CStr(<< >>)
    /\ thrown[r] = << >>

\* the kinds of rejection the stages produce
Taxonomy ==
  { "BAD_REQUEST", "TOKEN_EXPIRED", "INVALID_TOKEN", "TOKEN_MISSING", "UNAUTHORIZED",
    "USER_NOT_FOUND", "INSUFFICIENT_ROLES", "FEATURE_DISABLED" }

\* the kind of a thrown entry: the tenant resolver's 400 counts as
\* BAD_REQUEST, a guard's payload names its kind in code
RejectionKind(entry) ==
  IF entry.stage = "TenantResolver" /\ "status" \in DOMAIN entry.exception
     /\ entry.exception.status = 400
  THEN "BAD_REQUEST"
  ELSE IF "response" \in DOMAIN entry.exception /\ "code" \in DOMAIN entry.exception.response
  THEN entry.exception.response.code
  ELSE "none"

\* C30: a request that has ended either had its handler invoked and no
\* rejection, or had exactly one rejection, of a kind of the taxonomy and by
\* one of the stages, and no handler invocation.
ExactlyOneTerminalOutcome ==
  \A r \in Requests :
    pc[r] = "Done" =>
      \/ HandlerRan(r) /\ thrown[r] = << >>
      \/ /\ ~HandlerRan(r)
         /\ Len(thrown[r]) = 1
         /\ thrown[r][1].stage \in Gates
         /\ RejectionKind(thrown[r][1]) \in Taxonomy

\* a request ended by the logger's own exception: answered with 500, no
\* handler invocation and no rejection of the taxonomy
EndedOutsideTaxonomy ==
  \E r \in Requests :
    /\ pc[r] = "Done"
    /\ ~HandlerRan(r)
    /\ Len(thrown[r]) = 1
    /\ thrown[r][1].stage = "RequestLoggerStart"
    /\ RejectionKind(thrown[r][1]) = "none"
    /\ statusCode[r] = 500

\* what TenantContextMiddleware attaches for r, computed from r's inputs
OwnTenantContext(r) ==
  IF isExcludedPath(req[r].originalUrl.c) THEN Null
  ELSE LET extracted == extractTenantContext(req[r].headers.xTenantId, req[r].hostname,
                                             defaultTenant)
       IN IF extracted.threw THEN Undef ELSE extracted.value

\* the records of the log that carry the correlation id of r
OwnRecords(r) == SelectSeq(log, LAMBDA rec : rec.requestId = requestId[r])

\* the headers, tenant context, identity and rejection payload of r follow
\* from the inputs of r and carry the correlation id of r
OwnStateOnly(r) ==
  /\ requestId[r] # Undef =>
       /\ requestId[r] = IF Truthy(req[r].headers.xRequestId)
                         THEN req[r].headers.xRequestId ELSE requestId[r]
       /\ ~Truthy(req[r].headers.xRequestId) => requestId[r] \in Uuids
       /\ \A x \in active \ {r} : requestId[x] # requestId[r]
       /\ RequestIdHeaderWrites(r) = << [name |-> "x-request-id", value |-> requestId[r]] >>
  /\ TenantRan(r) =>
       /\ tenantContext[r] = OwnTenantContext(r)
       /\ TenantHeaderWrites(r) = TenantHeaderCalls(OwnTenantContext(r))
  /\ user[r] \in {Undef, validation[r].user}
  /\ \A i \in 1..Len(thrown[r]) :
       thrown[r][i].exception.response.requestId = requestId[r]
  /\ \A i \in 1..Len(finishListeners[r]) :
       /\ finishListeners[r][i].requestId = requestId[r]
       /\ finishListeners[r][i].originalUrl = req[r].originalUrl
  /\ (pc[r] = "Done" /\ finishListeners[r] # << >>) =>
       /\ Len(SelectSeq(OwnRecords(r), LAMBDA rec : rec.kind = "Incoming")) = 1
       /\ Len(SelectSeq(OwnRecords(r), LAMBDA rec : rec.kind = "Completed")) = 1
       /\ Len(SelectSeq(OwnRecords(r), LAMBDA rec : rec.kind = "Body"))
            = IF sanitizedBody[r].called THEN 1 ELSE 0

\* every record of the log belongs to one request in flight and describes it
RecordsAttributed ==
  \A i \in 1..Len(log) :
    \E r \in active :
      /\ log[i].requestId = requestId[r]
      /\ log[i].kind \in {"Incoming", "Completed"} =>
           /\ log[i].url = req[r].originalUrl
           /\ log[i].method = req[r].method
      /\ log[i].kind = "Completed" => log[i].status = statusCode[r]
      /\ log[i].kind = "Body" => sanitizedBody[r].called

\* C25: with two requests in flight through the same middleware and guard
\* objects, under every interleaving each request's log records, response
\* headers, tenant context, identity and rejection payload follow from its
\* own inputs and carry its own correlation id.
RequestsIndependent ==
  /\ \A r \in active : OwnStateOnly(r)
  /\ RecordsAttributed

\* both requests have ended, the second one's completion record was written
\* before the first one's, and the first was rejected with its own id
RequestsIndependentWitness ==
  /\ active = {"r1", "r2"}
  /\ pc["r1"] = "Done" /\ pc["r2"] = "Done"
  /\ requestId["r1"] = Str("rid-1")
  /\ requestId["r2"] \in Uuids
  /\ Len(thrown["r1"]) = 1
  /\ thrown["r1"][1].exception.response.requestId = Str("rid-1")
  /\ tenantContext["r1"] # tenantContext["r2"]
  /\ Len(log) = 5
  /\ log[4].kind = "Completed" /\ log[4].requestId = requestId["r2"]
  /\ log[5].kind = "Completed" /\ log[5].requestId = Str("rid-1")

====
